---- MODULE Spec2Model ----
(***************************************************************************)
(* A model of the MFlix sample REST API (Express + MongoDB Node.js driver). *)
(*                                                                         *)
(*  - config/database.ts : the shared, lazily initialised connection       *)
(*  - utils/errorHandler.ts : envelopes, asyncHandler, errorHandler        *)
(*  - controllers/movieController.ts : the request handlers                *)
(*                                                                         *)
(* A handler is an async function: the code between two awaits runs        *)
(* without interruption (one JavaScript thread), so every action below is  *)
(* one such synchronous segment, and a store operation takes effect in the *)
(* step that resumes the handler awaiting it.                              *)
(***************************************************************************)
EXTENDS Integers, Sequences, FiniteSets, TLC

VARIABLES
    \* ---- config/database.ts ----
    uri,          \* process.env.MONGODB_URI: "unset" or "set"
    connectP,     \* connect$: 0 = undefined, p = the promise promises[p]
    promises,     \* the promises _connectToDatabase() has returned
    database,     \* the module variable `database`: 0 = undefined, else a Db object
    client,       \* the module variable `client`: 0 = undefined, n = n-th MongoClient
    connectCalls, \* number of MongoClient.connect() calls made so far
    callers,      \* connectToDatabase callers: [pc, result]
    \* ---- the store (collection "movies") ----
    movies,       \* set of documents [_id, title, ...]
    usedIds,      \* identifiers the store has generated so far
    \* ---- requests being handled ----
    req,          \* slot -> request record
    voyageKey,    \* process.env.VOYAGE_API_KEY: Undefined, or Some(characters)
    \* ---- history (observation only) ----
    created,      \* ids returned by a 201 of createMovie -> the supplied fields
    modified,     \* ids whose document an update has changed
    gone,         \* ids a delete has removed
    \* ---- app.ts: startServer() ----
    server,       \* where startServer is, whether the app listens, the exit code
    indexes       \* the indexes of the movies collection: [name, fts]

connVars == <<uri, connectP, promises, database, client, connectCalls, callers>>
bootVars == <<server, indexes>>
apiVars == <<movies, usedIds, req, voyageKey, created, modified, gone, bootVars>>
envVars == <<connVars, voyageKey, bootVars>>
vars == <<uri, connectP, promises, database, client, connectCalls, callers,
          movies, usedIds, req, voyageKey, created, modified, gone, server, indexes>>

(***************************************************************************)
(* app.ts: the state of startServer()                                      *)
(***************************************************************************)
\* exit: the codes given to process.exit, none while the process runs
\* the module loaded, startServer not called (the app imported by a test)
NotStarted == [pc |-> "idle", listening |-> FALSE, exit |-> <<>>,
               did |-> <<>>, warned |-> {}]
\* startServer has run to app.listen
Serving == [pc |-> "listening", listening |-> TRUE, exit |-> <<>>,
            did |-> <<"connectToDatabase", "verifyRequirements">>, warned |-> {}]

\* the index every collection has, and a text index
IdIndex == [name |-> "_id_", fts |-> FALSE]
TextIndex(name) == [name |-> name, fts |-> TRUE]

(***************************************************************************)
(* Bounds of the model.                                                    *)
(***************************************************************************)
NCallers == 4
MaxIds == 2

(***************************************************************************)
(* config/database.ts                                                      *)
(***************************************************************************)
UriError == "MONGODB_URI environment variable is not defined."
ConnectError == "connect failed"

IdleCaller == [pc |-> "idle", promise |-> 0, arrived |-> "", result |-> 0, error |-> ""]

\* async function _connectToDatabase(): the synchronous part of a call, up to
\* `await client.connect()`; the call returns a new promise, promises[p].
connectToDatabaseImpl ==
    /\ IF database # 0
       THEN /\ promises' = Append(promises, [state |-> "fulfilled", value |-> database, error |-> ""])
            /\ UNCHANGED <<client, connectCalls>>
       ELSE IF uri = "unset"
       THEN /\ promises' = Append(promises, [state |-> "rejected", value |-> 0, error |-> UriError])
            /\ UNCHANGED <<client, connectCalls>>
       ELSE /\ client' = client + 1
            /\ connectCalls' = connectCalls + 1
            /\ promises' = Append(promises, [state |-> "pending", value |-> 0, error |-> ""])

\* what connect$ was when the caller arrived
Arrival ==
    IF connectP = 0 THEN "first"
    ELSE IF promises[connectP].state = "pending" THEN "inflight" ELSE "settled"

\* `connect$ = _connectToDatabase()` on every call: the `??=` guard dropped.
connectToDatabase_noGuard(c) ==
    /\ callers[c].pc = "idle"
    /\ connectToDatabaseImpl
    /\ connectP' = Len(promises) + 1
    /\ callers' = [callers EXCEPT ![c] =
          [pc |-> "await", promise |-> connectP', arrived |-> Arrival, result |-> 0, error |-> ""]]
    /\ UNCHANGED <<uri, database>>

\* a new attempt whenever the cached one has failed
connectToDatabase_retry(c) ==
    /\ callers[c].pc = "idle"
    /\ IF connectP = 0 \/ promises[connectP].state = "rejected"
       THEN /\ connectToDatabaseImpl
            /\ connectP' = Len(promises) + 1
       ELSE UNCHANGED <<connectP, promises, client, connectCalls>>
    /\ callers' = [callers EXCEPT ![c] =
          [pc |-> "await", promise |-> connectP', arrived |-> Arrival, result |-> 0, error |-> ""]]
    /\ UNCHANGED <<uri, database>>

\* export async function connectToDatabase():
\*   connect$ ??= _connectToDatabase(); return await connect$;
connectToDatabase(c) ==
    /\ callers[c].pc = "idle"
    /\ IF connectP = 0
       THEN /\ connectToDatabaseImpl
            /\ connectP' = Len(promises) + 1
       ELSE UNCHANGED <<connectP, promises, client, connectCalls>>
    /\ callers' = [callers EXCEPT ![c] =
          [pc |-> "await", promise |-> connectP', arrived |-> Arrival, result |-> 0, error |-> ""]]
    /\ UNCHANGED <<uri, database>>

\* `await client.connect()` of the call behind promises[p] resolves:
\*   database = client.db("sample_mflix"); return database;
\* (a new Db object, named here by the promise that made it)
ConnectResolves(p) ==
    /\ promises[p].state = "pending"
    /\ database' = p
    /\ promises' = [promises EXCEPT ![p] = [state |-> "fulfilled", value |-> p, error |-> ""]]
    /\ UNCHANGED <<uri, connectP, client, connectCalls, callers>>

\* `await client.connect()` rejects: catch (error) { throw error; }
ConnectRejects(p) ==
    /\ promises[p].state = "pending"
    /\ promises' = [promises EXCEPT ![p] = [state |-> "rejected", value |-> 0, error |-> ConnectError]]
    /\ UNCHANGED <<uri, connectP, database, client, connectCalls, callers>>

\* `return await connect$` resumes once the awaited promise has settled
connectToDatabaseResume(c) ==
    /\ callers[c].pc = "await"
    /\ promises[callers[c].promise].state \in {"fulfilled", "rejected"}
    /\ callers' = [callers EXCEPT ![c] =
          IF promises[callers[c].promise].state = "fulfilled"
          THEN [@ EXCEPT !.pc = "resolved", !.result = promises[callers[c].promise].value]
          ELSE [@ EXCEPT !.pc = "rejected", !.error = promises[callers[c].promise].error]]
    /\ UNCHANGED <<uri, connectP, promises, database, client, connectCalls>>

\* the caller is done with the result and may call again
CallerReturns(c) ==
    /\ callers[c].pc \in {"resolved", "rejected"}
    /\ callers' = [callers EXCEPT ![c] = IdleCaller]
    /\ UNCHANGED <<uri, connectP, promises, database, client, connectCalls>>

\* the accessor without its test
getCollectionThrows_unstartedOnly == connectP = 0

\* getCollection(name): `if (!database) throw new Error("Database not connected.")`
getCollectionThrows == database = 0

InitConn ==
    /\ uri \in {"unset", "set"}
    /\ connectP = 0
    /\ promises = <<>>
    /\ database = 0
    /\ client = 0
    /\ connectCalls = 0
    /\ callers = [c \in 1..NCallers |-> IdleCaller]
    /\ movies = {}
    /\ usedIds = {}
    /\ req = <<>>
    /\ voyageKey = <<>>
    /\ created = <<>>
    /\ modified = {}
    /\ gone = {}
    /\ server = NotStarted
    /\ indexes = {IdIndex, TextIndex("text_search_index")}

NextConn ==
    \/ \E c \in DOMAIN callers : connectToDatabase(c) /\ UNCHANGED apiVars
    \/ \E p \in DOMAIN promises : ConnectResolves(p) /\ UNCHANGED apiVars
    \/ \E p \in DOMAIN promises : ConnectRejects(p) /\ UNCHANGED apiVars
    \/ \E c \in DOMAIN callers : connectToDatabaseResume(c) /\ UNCHANGED apiVars
    \/ \E c \in DOMAIN callers : CallerReturns(c) /\ UNCHANGED apiVars

SpecConn == InitConn /\ [][NextConn]_vars

(***************************************************************************)
(* The store's identifiers (bson ObjectId)                                 *)
(***************************************************************************)
\* the identifier strings a client may send in a path: two well-formed
\* (24 hex digits) and one malformed; a path parameter is never empty
IdOf(i) == "id" \o ToString(i)
WellFormed == {IdOf(i) : i \in 1..MaxIds}
RawIds == WellFormed \cup {"zz"}

\* ObjectId.isValid(id)
ObjectIdIsValid(id) == id \in WellFormed

\* new ObjectId(id) and ObjectId.prototype.toString()
ObjectId(id) == [oid |-> id]
OidToString(o) == o.oid

EmptyObj == <<>>
Null == [null |-> TRUE]

(***************************************************************************)
(* utils/errorHandler.ts                                                   *)
(***************************************************************************)
DuplicateKeyCode == 11000
DocumentValidationCode == 121
\* some other code of a MongoServerError (13: Unauthorized)
OtherStoreCode == 13

Timestamp == "new Date().toISOString()"

\* the errors the code and the driver throw
Error(msg) == [name |-> "Error", mongo |-> FALSE, code |-> 0, message |-> msg]
ValidationError(msg) == [name |-> "ValidationError", mongo |-> FALSE, code |-> 0, message |-> msg]
MongoError(code) == [name |-> "MongoServerError", mongo |-> TRUE, code |-> code, message |-> "driver diagnostic"]

\* An optional argument or field: <<>> is `undefined`, <<v>> is the value v.
Undefined == <<>>
Some(v) == <<v>>

\* createSuccessResponse(data, message?)
createSuccessResponse(data, message) ==
    [success |-> TRUE,
     message |-> IF message = "" THEN "Operation completed successfully" ELSE message,
     data |-> data,
     timestamp |-> Timestamp]

\* createErrorResponse(message, code?, details?)
createErrorResponse(message, code, details) ==
    [success |-> FALSE,
     message |-> message,
     error |-> [message |-> message, code |-> code, details |-> details],
     timestamp |-> Timestamp]

\* res.json(body): JSON.stringify drops the keys whose value is undefined
Json(body) ==
    IF "error" \in DOMAIN body /\ body.error.details = Undefined
    THEN [body EXCEPT !.error = [message |-> body.error.message, code |-> body.error.code]]
    ELSE body

\* the default branch answering a fixed text and the error's text as details
parseErrorDetails_generic(err) ==
    IF err.mongo
    THEN IF err.code = DuplicateKeyCode
         THEN [message |-> "Duplicate key error", code |-> "DUPLICATE_KEY",
               details |-> Some("A document with this data already exists"), statusCode |-> 409]
         ELSE IF err.code = DocumentValidationCode
         THEN [message |-> "Document validation failed", code |-> "DOCUMENT_VALIDATION_ERROR",
               details |-> Some(err.message), statusCode |-> 400]
         ELSE [message |-> "Database error", code |-> "DATABASE_ERROR",
               details |-> Some(err.code), statusCode |-> 500]
    ELSE IF err.name = "ValidationError"
    THEN [message |-> "Validation failed", code |-> "VALIDATION_ERROR",
          details |-> Some(err.message), statusCode |-> 400]
    ELSE [message |-> "Internal server error",
          code |-> "INTERNAL_ERROR", details |-> Some(err.message), statusCode |-> 500]

\* function parseErrorDetails(err)
parseErrorDetails(err) ==
    IF err.mongo
    THEN IF err.code = DuplicateKeyCode
         THEN [message |-> "Duplicate key error", code |-> "DUPLICATE_KEY",
               details |-> Some("A document with this data already exists"), statusCode |-> 409]
         ELSE IF err.code = DocumentValidationCode
         THEN [message |-> "Document validation failed", code |-> "DOCUMENT_VALIDATION_ERROR",
               details |-> Some(err.message), statusCode |-> 400]
         ELSE [message |-> "Database error", code |-> "DATABASE_ERROR",
               details |-> Some(err.code), statusCode |-> 500]
    ELSE IF err.name = "ValidationError"
    THEN [message |-> "Validation failed", code |-> "VALIDATION_ERROR",
          details |-> Some(err.message), statusCode |-> 400]
    ELSE [message |-> IF err.message = "" THEN "Internal server error" ELSE err.message,
          code |-> "INTERNAL_ERROR", details |-> Undefined, statusCode |-> 500]

\* errorHandler(err, req, res, next): the response it sends
errorHandler(err) ==
    [status |-> parseErrorDetails(err).statusCode,
     body |-> Json(createErrorResponse(parseErrorDetails(err).message,
                                       parseErrorDetails(err).code,
                                       parseErrorDetails(err).details))]

\* validateRequiredFields(body, requiredFields): the missing fields
\* (`body[field] == null || body[field] === ""`)
MissingFields(body, requiredFields) ==
    {f \in requiredFields : f \notin DOMAIN body \/ body[f] = ""}

(***************************************************************************)
(* A request being handled: one activation of a route handler wrapped by   *)
(* asyncHandler.                                                           *)
(***************************************************************************)
IdleSlot == [h |-> "", in |-> EmptyObj, pc |-> "idle", ops |-> <<>>, okOps |-> 0,
             provider |-> 0, resp |-> <<>>, thrown |-> <<>>, oid |-> "", n |-> 0,
             vec |-> <<>>, call |-> <<>>, calls |-> <<>>, embed |-> ""]

Begin(h, in) == [IdleSlot EXCEPT !.h = h, !.in = in, !.pc = "start"]

\* the response sent, and the handler running on to send it again
Respond_noReturn(s, status, body) ==
    [s EXCEPT !.pc = "done",
              !.resp = @ \o <<[status |-> status, body |-> Json(body)],
                              [status |-> status, body |-> Json(body)]>>]

\* res.status(status).json(body); return;
Respond(s, status, body) ==
    [s EXCEPT !.pc = "done",
              !.resp = Append(@, [status |-> status, body |-> Json(body)])]

\* the error left to Express's default handler, which sends the stack text
Throw_unhandled(s, err) ==
    [s EXCEPT !.pc = "done",
              !.thrown = Append(@, err),
              !.resp = Append(@, [status |-> 500, body |-> [stack |-> err.message]])]

\* the handler throws or its promise rejects: asyncHandler hands the error to
\* next(), Express to errorHandler
Throw(s, err) ==
    [s EXCEPT !.pc = "done",
              !.thrown = Append(@, err),
              !.resp = Append(@, errorHandler(err))]

\* the store operation sent a second time
Issue_twice(s, op) == [s EXCEPT !.pc = op, !.ops = @ \o <<op, op>>]

\* the handler calls a store operation and awaits it
Issue(s, op) == [s EXCEPT !.pc = op, !.ops = Append(@, op)]
IssueAt(s, op, pc) == [s EXCEPT !.pc = pc, !.ops = Append(@, op)]

\* ... with these arguments (the ones the model follows: collection, limit,
\* skip, sort direction, numCandidates, identifiers)
IssueWith(s, op, pc, args) ==
    [IssueAt(s, op, pc) EXCEPT !.call = args, !.calls = Append(@, args)]

\* the awaited store operation has returned
Returned(s) == [s EXCEPT !.okOps = @ + 1]

\* const coll = getCollection("movies"), then `next`; or the throw
WithCollection(s, next) ==
    IF getCollectionThrows THEN Throw(s, Error("Database not connected.")) ELSE next

\* what a store operation may do: succeed, or fail with a MongoServerError
ReadOutcomes == {"ok", "other"}
WriteOutcomes == {"ok", "dup", "validation", "other"}
FaultCode(f) ==
    IF f = "dup" THEN DuplicateKeyCode
    ELSE IF f = "validation" THEN DocumentValidationCode ELSE OtherStoreCode

(***************************************************************************)
(* The store: documents and filters                                        *)
(***************************************************************************)
\* the document a filter { _id: oid } selects, or Null
FindById(oid) ==
    IF \E d \in movies : d._id = oid
    THEN CHOOSE d \in movies : d._id = oid
    ELSE Null

\* a document as JSON: the ObjectId becomes its hex string
DocJson(d) == IF d = Null THEN Null ELSE [d EXCEPT !._id = OidToString(@)]

\* { $set: patch } applied to a document
SetFields(d, patch) ==
    [k \in DOMAIN d \cup DOMAIN patch |-> IF k \in DOMAIN patch THEN patch[k] ELSE d[k]]

\* insertOne(body): the stored document, _id generated by the driver
NewDoc(oid, body) == SetFields(body, [_id |-> oid])

FreshIds == WellFormed \ usedIds

(***************************************************************************)
(* controllers/movieController.ts: single-document handlers               *)
(***************************************************************************)
histVars == <<created, modified, gone>>

InvalidIdResponse == createErrorResponse("Invalid movie ID format", "INVALID_OBJECT_ID", Undefined)
NotFoundResponse == createErrorResponse("Movie not found", "MOVIE_NOT_FOUND", Undefined)

\* the identifier check dropped
RejectsId_never(id) == FALSE

\* `if (!ObjectId.isValid(id)) { res.status(400)...; return; }`
RejectsId(id) == ~ObjectIdIsValid(id)

\* the bodies a client may send to POST /api/movies
CreateBodies == {[title |-> "X", year |-> 1994],
                 [title |-> "", year |-> 1994], [year |-> 1994], EmptyObj}
\* the bodies a client may send to PATCH /api/movies/:id
UpdateBodies == {EmptyObj, [title |-> "Y"], [title |-> "X"]}

\* GET /api/movies/:id, up to `await moviesCollection.findOne(...)`
getMovieById(r, id) ==
    /\ req[r].pc = "idle"
    /\ LET s == Begin("getMovieById", [id |-> id]) IN
       req' = [req EXCEPT ![r] =
          IF RejectsId(id) THEN Respond(s, 400, InvalidIdResponse)
          ELSE WithCollection(s, Issue(s, "findOne"))]
    /\ UNCHANGED <<movies, usedIds, histVars>>

\* a 404 answered as an empty success
getMovieById_findOne_no404(r) ==
    /\ req[r].h = "getMovieById" /\ req[r].pc = "findOne"
    /\ \E f \in ReadOutcomes :
         LET s == req[r]
             movie == FindById(ObjectId(s.in.id)) IN
         req' = [req EXCEPT ![r] =
            IF f # "ok" THEN Throw(s, MongoError(FaultCode(f)))
            ELSE Respond(Returned(s), 200,
                         createSuccessResponse(DocJson(movie), "Movie retrieved successfully"))]
    /\ UNCHANGED <<movies, usedIds, histVars>>

\* getMovieById after findOne
getMovieById_findOne(r) ==
    /\ req[r].h = "getMovieById" /\ req[r].pc = "findOne"
    /\ \E f \in ReadOutcomes :
         LET s == req[r]
             movie == FindById(ObjectId(s.in.id)) IN
         req' = [req EXCEPT ![r] =
            IF f # "ok" THEN Throw(s, MongoError(FaultCode(f)))
            ELSE IF movie = Null THEN Respond(Returned(s), 404, NotFoundResponse)
            ELSE Respond(Returned(s), 200,
                         createSuccessResponse(DocJson(movie), "Movie retrieved successfully"))]
    /\ UNCHANGED <<movies, usedIds, histVars>>

\* POST /api/movies, up to `await moviesCollection.insertOne(movieData)`
createMovie(r, body) ==
    /\ req[r].pc = "idle"
    /\ LET s == Begin("createMovie", [body |-> body]) IN
       req' = [req EXCEPT ![r] =
          IF MissingFields(body, {"title"}) # {}
          THEN Throw(s, ValidationError("Missing required fields: title"))
          ELSE WithCollection(s, Issue(s, "insertOne"))]
    /\ UNCHANGED <<movies, usedIds, histVars>>

\* createMovie after insertOne, up to `await moviesCollection.findOne(...)`
createMovie_insertOne(r) ==
    /\ req[r].h = "createMovie" /\ req[r].pc = "insertOne"
    /\ LET s == req[r] IN
       \/ \E f \in WriteOutcomes \ {"ok"} :
            /\ req' = [req EXCEPT ![r] = Throw(s, MongoError(FaultCode(f)))]
            /\ UNCHANGED <<movies, usedIds>>
       \/ \E id \in FreshIds, acknowledged \in BOOLEAN :
            /\ movies' = movies \cup {NewDoc(ObjectId(id), s.in.body)}
            /\ usedIds' = usedIds \cup {id}
            /\ req' = [req EXCEPT ![r] =
                  IF ~acknowledged
                  THEN Throw(Returned(s),
                             Error("Movie insertion was not acknowledged by the database"))
                  ELSE Issue([Returned(s) EXCEPT !.oid = id], "findOne")]
    /\ UNCHANGED histVars

\* createMovie after findOne: 201 with the document read back
createMovie_findOne(r) ==
    /\ req[r].h = "createMovie" /\ req[r].pc = "findOne"
    /\ \E f \in ReadOutcomes :
         LET s == req[r]
             createdMovie == FindById(ObjectId(s.oid)) IN
         /\ req' = [req EXCEPT ![r] =
               IF f # "ok" THEN Throw(s, MongoError(FaultCode(f)))
               ELSE Respond(Returned(s), 201,
                            createSuccessResponse(DocJson(createdMovie),
                                                  "Movie created successfully"))]
         /\ created' = IF f = "ok" /\ createdMovie # Null
                       THEN [i \in DOMAIN created \cup {s.oid} |->
                                IF i = s.oid THEN s.in.body ELSE created[i]]
                       ELSE created
    /\ UNCHANGED <<movies, usedIds, modified, gone>>

\* every matched document counted as modified
ModifiedBy_allMatched(matched, update) == matched

\* { $set: update }: the matched documents the update changes, which
\* result.modifiedCount counts
ModifiedBy(matched, update) == {d \in matched : SetFields(d, update) # d}

\* PATCH /api/movies/:id, up to `await moviesCollection.updateOne(...)`
updateMovie(r, id, body) ==
    /\ req[r].pc = "idle"
    /\ LET s == Begin("updateMovie", [id |-> id, body |-> body]) IN
       req' = [req EXCEPT ![r] =
          IF RejectsId(id) THEN Respond(s, 400, InvalidIdResponse)
          ELSE IF DOMAIN body = {}
          THEN Respond(s, 400, createErrorResponse("No update data provided",
                                                   "NO_UPDATE_DATA", Undefined))
          ELSE WithCollection(s, Issue(s, "updateOne"))]
    /\ UNCHANGED <<movies, usedIds, histVars>>

\* updateMovie after updateOne({_id}, {$set: updateData})
updateMovie_updateOne(r) ==
    /\ req[r].h = "updateMovie" /\ req[r].pc = "updateOne"
    /\ LET s == req[r]
           old == FindById(ObjectId(s.in.id)) IN
       \/ \E f \in WriteOutcomes \ {"ok"} :
            /\ req' = [req EXCEPT ![r] = Throw(s, MongoError(FaultCode(f)))]
            /\ UNCHANGED <<movies, modified>>
       \/ /\ old = Null
          /\ req' = [req EXCEPT ![r] = Respond(Returned(s), 404, NotFoundResponse)]
          /\ UNCHANGED <<movies, modified>>
       \/ /\ old # Null
          /\ movies' = (movies \ {old}) \cup {SetFields(old, s.in.body)}
          /\ modified' = modified \cup {OidToString(d._id) : d \in ModifiedBy({old}, s.in.body)}
          /\ req' = [req EXCEPT ![r] =
                Issue([Returned(s) EXCEPT !.n = Cardinality(ModifiedBy({old}, s.in.body))],
                      "findOne")]
    /\ UNCHANGED <<usedIds, created, gone>>

\* updateMovie after findOne: 200 with the document read back
updateMovie_findOne(r) ==
    /\ req[r].h = "updateMovie" /\ req[r].pc = "findOne"
    /\ \E f \in ReadOutcomes :
         LET s == req[r]
             updatedMovie == FindById(ObjectId(s.in.id)) IN
         req' = [req EXCEPT ![r] =
            IF f # "ok" THEN Throw(s, MongoError(FaultCode(f)))
            ELSE Respond(Returned(s), 200,
                         createSuccessResponse(DocJson(updatedMovie),
                            "Movie updated successfully. Modified " \o ToString(s.n) \o " field(s)."))]
    /\ UNCHANGED <<movies, usedIds, histVars>>

\* DELETE /api/movies/:id, up to `await moviesCollection.deleteOne(...)`
deleteMovie(r, id) ==
    /\ req[r].pc = "idle"
    /\ LET s == Begin("deleteMovie", [id |-> id]) IN
       req' = [req EXCEPT ![r] =
          IF RejectsId(id) THEN Respond(s, 400, InvalidIdResponse)
          ELSE WithCollection(s, Issue(s, "deleteOne"))]
    /\ UNCHANGED <<movies, usedIds, histVars>>

\* a delete that reports the removal and leaves the document in place
deleteMovie_deleteOne_keeps(r) ==
    /\ req[r].h = "deleteMovie" /\ req[r].pc = "deleteOne"
    /\ LET s == req[r]
           old == FindById(ObjectId(s.in.id)) IN
       \/ /\ req' = [req EXCEPT ![r] = Throw(s, MongoError(OtherStoreCode))]
          /\ UNCHANGED <<movies, gone>>
       \/ /\ old = Null
          /\ req' = [req EXCEPT ![r] = Respond(Returned(s), 404, NotFoundResponse)]
          /\ UNCHANGED <<movies, gone>>
       \/ /\ old # Null
          /\ movies' = movies
          /\ gone' = gone \cup {s.in.id}
          /\ req' = [req EXCEPT ![r] =
                Respond(Returned(s), 200,
                        createSuccessResponse([deletedCount |-> 1], "Movie deleted successfully"))]
    /\ UNCHANGED <<usedIds, created, modified>>

\* deleteMovie after deleteOne
deleteMovie_deleteOne(r) ==
    /\ req[r].h = "deleteMovie" /\ req[r].pc = "deleteOne"
    /\ LET s == req[r]
           old == FindById(ObjectId(s.in.id)) IN
       \/ /\ req' = [req EXCEPT ![r] = Throw(s, MongoError(OtherStoreCode))]
          /\ UNCHANGED <<movies, gone>>
       \/ /\ old = Null
          /\ req' = [req EXCEPT ![r] = Respond(Returned(s), 404, NotFoundResponse)]
          /\ UNCHANGED <<movies, gone>>
       \/ /\ old # Null
          /\ movies' = movies \ {old}
          /\ gone' = gone \cup {s.in.id}
          /\ req' = [req EXCEPT ![r] =
                Respond(Returned(s), 200,
                        createSuccessResponse([deletedCount |-> 1], "Movie deleted successfully"))]
    /\ UNCHANGED <<usedIds, created, modified>>

\* DELETE /api/movies/:id/find-and-delete, up to `await ...findOneAndDelete(...)`
findAndDeleteMovie(r, id) ==
    /\ req[r].pc = "idle"
    /\ LET s == Begin("findAndDeleteMovie", [id |-> id]) IN
       req' = [req EXCEPT ![r] =
          IF RejectsId(id) THEN Respond(s, 400, InvalidIdResponse)
          ELSE WithCollection(s, Issue(s, "findOneAndDelete"))]
    /\ UNCHANGED <<movies, usedIds, histVars>>

\* a removal that answers 200 whether or not it found the document
findAndDeleteMovie_findOneAndDelete_always(r) ==
    /\ req[r].h = "findAndDeleteMovie" /\ req[r].pc = "findOneAndDelete"
    /\ LET s == req[r]
           deletedMovie == FindById(ObjectId(s.in.id)) IN
       \/ /\ req' = [req EXCEPT ![r] = Throw(s, MongoError(OtherStoreCode))]
          /\ UNCHANGED <<movies, gone>>
       \/ /\ movies' = movies \ {deletedMovie}
          /\ gone' = gone \cup {s.in.id}
          /\ req' = [req EXCEPT ![r] =
                Respond(Returned(s), 200,
                        createSuccessResponse(DocJson(deletedMovie),
                                              "Movie found and deleted successfully"))]
    /\ UNCHANGED <<usedIds, created, modified>>

\* findAndDeleteMovie after findOneAndDelete
findAndDeleteMovie_findOneAndDelete(r) ==
    /\ req[r].h = "findAndDeleteMovie" /\ req[r].pc = "findOneAndDelete"
    /\ LET s == req[r]
           deletedMovie == FindById(ObjectId(s.in.id)) IN
       \/ /\ req' = [req EXCEPT ![r] = Throw(s, MongoError(OtherStoreCode))]
          /\ UNCHANGED <<movies, gone>>
       \/ /\ deletedMovie = Null
          /\ req' = [req EXCEPT ![r] = Respond(Returned(s), 404, NotFoundResponse)]
          /\ UNCHANGED <<movies, gone>>
       \/ /\ deletedMovie # Null
          /\ movies' = movies \ {deletedMovie}
          /\ gone' = gone \cup {s.in.id}
          /\ req' = [req EXCEPT ![r] =
                Respond(Returned(s), 200,
                        createSuccessResponse(DocJson(deletedMovie),
                                              "Movie found and deleted successfully"))]
    /\ UNCHANGED <<usedIds, created, modified>>

(***************************************************************************)
(* controllers/movieController.ts: batch handlers                          *)
(***************************************************************************)
ValidMovie == [title |-> "X", year |-> 1994]
Patch == [title |-> "Y"]

\* the JSON bodies a client may send to POST /api/movies/batch: an object, an
\* empty array, and arrays of movie objects (one without a title)
BatchCreateBodies ==
    {[array |-> FALSE, items |-> <<>>],
     [array |-> TRUE, items |-> <<>>],
     [array |-> TRUE, items |-> <<ValidMovie>>],
     [array |-> TRUE, items |-> <<ValidMovie, [year |-> 1994]>>],
     [array |-> TRUE, items |-> <<ValidMovie, ValidMovie>>]}

\* the filters a client may send: {}, a field match, and { _id: { $in: [...] } }
\* with and without a malformed entry (the field `in` stands for `$in`)
Filters ==
    {EmptyObj,
     [year |-> 1994],
     [title |-> "Y"],
     [_id |-> [in |-> <<"id1", "id2">>]],
     [_id |-> [in |-> <<"id1", "zz">>]],
     [_id |-> [in |-> <<"zz", "id2">>]]}

\* the bodies of PATCH /api/movies: { filter?, update? }
BatchUpdateBodies ==
    {EmptyObj, [update |-> Patch], [filter |-> [year |-> 1994]]}
    \cup {[filter |-> f, update |-> EmptyObj] : f \in {EmptyObj, [_id |-> [in |-> <<"id1", "zz">>]]}}
    \cup {[filter |-> f, update |-> Patch] : f \in Filters}

\* the bodies of DELETE /api/movies: { filter? }
BatchDeleteBodies == {EmptyObj} \cup {[filter |-> f] : f \in Filters}

Range(seq) == {seq[i] : i \in DOMAIN seq}

\* `filter._id && filter._id.$in && Array.isArray(filter._id.$in)`
HasIdList(filter) == "_id" \in DOMAIN filter

\* malformed entries of the $in array skipped instead of rejected
BadIdInList_never(filter) == FALSE

\* the .map() callback throws on the first entry that is not ObjectId.isValid
BadIdInList(filter) ==
    HasIdList(filter) /\ \E i \in DOMAIN filter._id.in : ~ObjectIdIsValid(filter._id.in[i])

FirstBadId(filter) ==
    filter._id.in[CHOOSE i \in DOMAIN filter._id.in :
                    /\ ~ObjectIdIsValid(filter._id.in[i])
                    /\ \A j \in 1..(i - 1) : ObjectIdIsValid(filter._id.in[j])]

\* processedFilter: the $in strings converted to ObjectId
ProcessedFilter(filter) ==
    IF HasIdList(filter)
    THEN [filter EXCEPT !._id =
            [in |-> [i \in DOMAIN filter._id.in |-> ObjectId(filter._id.in[i])]]]
    ELSE filter

\* the store's filter semantics, for the filters above
Matches(d, pf) ==
    \A k \in DOMAIN pf :
        IF k = "_id"
        THEN \E i \in DOMAIN pf._id.in :
                 /\ ObjectIdIsValid(OidToString(pf._id.in[i]))
                 /\ pf._id.in[i] = d._id
        ELSE k \in DOMAIN d /\ d[k] = pf[k]

Matching(pf) == {d \in movies : Matches(d, pf)}

\* POST /api/movies/batch, up to `await moviesCollection.insertMany(moviesData)`
createMoviesBatch(r, body) ==
    /\ req[r].pc = "idle"
    /\ LET s == Begin("createMoviesBatch", [body |-> body])
           bad == {i \in DOMAIN body.items : MissingFields(body.items[i], {"title"}) # {}} IN
       req' = [req EXCEPT ![r] =
          IF ~body.array \/ Len(body.items) = 0
          THEN Respond(s, 400,
                  createErrorResponse("Request body must be a non-empty array of movie objects",
                                      "INVALID_INPUT", Undefined))
          ELSE IF bad # {}
          THEN Throw(s, Error("Movie at index " \o
                                ToString((CHOOSE i \in bad : \A j \in bad : i <= j) - 1) \o
                                ": Missing required fields: title"))
          ELSE WithCollection(s, Issue(s, "insertMany"))]
    /\ UNCHANGED <<movies, usedIds, histVars>>

\* createMoviesBatch after insertMany
createMoviesBatch_insertMany(r) ==
    /\ req[r].h = "createMoviesBatch" /\ req[r].pc = "insertMany"
    /\ LET s == req[r]
           items == s.in.body.items IN
       \/ \E f \in WriteOutcomes \ {"ok"} :
            /\ req' = [req EXCEPT ![r] = Throw(s, MongoError(FaultCode(f)))]
            /\ UNCHANGED <<movies, usedIds>>
       \/ \E ids \in [DOMAIN items -> FreshIds], acknowledged \in BOOLEAN :
            /\ \A i, j \in DOMAIN items : i # j => ids[i] # ids[j]
            /\ movies' = movies \cup {NewDoc(ObjectId(ids[i]), items[i]) : i \in DOMAIN items}
            /\ usedIds' = usedIds \cup Range(ids)
            /\ req' = [req EXCEPT ![r] =
                  IF ~acknowledged
                  THEN Throw(Returned(s),
                             Error("Batch movie insertion was not acknowledged by the database"))
                  ELSE Respond(Returned(s), 201,
                          createSuccessResponse(
                              [insertedCount |-> Len(items), insertedIds |-> ids],
                              "Successfully created " \o ToString(Len(items)) \o " movies"))]
    /\ UNCHANGED histVars

\* the guard of deleteMoviesBatch applied to the update: an empty filter
\* refused as well
MissingFilterOrUpdate_orEmptyFilter(body) ==
    \/ "filter" \notin DOMAIN body \/ "update" \notin DOMAIN body
    \/ DOMAIN body.filter = {}

\* `if (!filter || !update)`
MissingFilterOrUpdate(body) == "filter" \notin DOMAIN body \/ "update" \notin DOMAIN body

\* PATCH /api/movies, up to `await moviesCollection.updateMany(...)`
updateMoviesBatch(r, body) ==
    /\ req[r].pc = "idle"
    /\ LET s == Begin("updateMoviesBatch", [body |-> body]) IN
       req' = [req EXCEPT ![r] =
          IF MissingFilterOrUpdate(body)
          THEN Respond(s, 400,
                  createErrorResponse("Both filter and update objects are required",
                                      "MISSING_REQUIRED_FIELDS", Undefined))
          ELSE IF DOMAIN body.update = {}
          THEN Respond(s, 400,
                  createErrorResponse("Update object cannot be empty", "EMPTY_UPDATE", Undefined))
          ELSE WithCollection(s,
                  IF BadIdInList(body.filter)
                  THEN Throw(s, Error("Invalid ObjectId: " \o FirstBadId(body.filter)))
                  ELSE Issue(s, "updateMany"))]
    /\ UNCHANGED <<movies, usedIds, histVars>>

\* updateMoviesBatch after updateMany(processedFilter, {$set: update})
updateMoviesBatch_updateMany(r) ==
    /\ req[r].h = "updateMoviesBatch" /\ req[r].pc = "updateMany"
    /\ LET s == req[r]
           matched == Matching(ProcessedFilter(s.in.body.filter))
           changed == ModifiedBy(matched, s.in.body.update) IN
       \/ /\ req' = [req EXCEPT ![r] = Throw(s, MongoError(OtherStoreCode))]
          /\ UNCHANGED <<movies, modified>>
       \/ /\ movies' = (movies \ matched) \cup {SetFields(d, s.in.body.update) : d \in matched}
          /\ modified' = modified \cup {OidToString(d._id) : d \in changed}
          /\ req' = [req EXCEPT ![r] =
                Respond(Returned(s), 200,
                   createSuccessResponse(
                      [matchedCount |-> Cardinality(matched),
                       modifiedCount |-> Cardinality(changed)],
                      "Update operation completed. Matched " \o ToString(Cardinality(matched))
                         \o " documents, modified " \o ToString(Cardinality(changed))
                         \o " documents."))]
    /\ UNCHANGED <<usedIds, created, gone>>

\* the guard without its test for an empty object
NoFilter_onlyAbsent(body) == "filter" \notin DOMAIN body

\* `if (!filter || Object.keys(filter).length === 0)`
NoFilter(body) == "filter" \notin DOMAIN body \/ DOMAIN body.filter = {}

\* DELETE /api/movies, up to `await moviesCollection.deleteMany(processedFilter)`
deleteMoviesBatch(r, body) ==
    /\ req[r].pc = "idle"
    /\ LET s == Begin("deleteMoviesBatch", [body |-> body]) IN
       req' = [req EXCEPT ![r] =
          IF NoFilter(body)
          THEN Respond(s, 400,
                  createErrorResponse("Filter object is required and cannot be empty. This prevents accidental deletion of all documents.",
                                      "MISSING_FILTER", Undefined))
          ELSE WithCollection(s,
                  IF BadIdInList(body.filter)
                  THEN Throw(s, Error("Invalid ObjectId: " \o FirstBadId(body.filter)))
                  ELSE Issue(s, "deleteMany"))]
    /\ UNCHANGED <<movies, usedIds, histVars>>

\* deleteMoviesBatch after deleteMany
deleteMoviesBatch_deleteMany(r) ==
    /\ req[r].h = "deleteMoviesBatch" /\ req[r].pc = "deleteMany"
    /\ LET s == req[r]
           matched == IF "filter" \in DOMAIN s.in.body
                      THEN Matching(ProcessedFilter(s.in.body.filter))
                      ELSE movies IN
       \/ /\ req' = [req EXCEPT ![r] = Throw(s, MongoError(OtherStoreCode))]
          /\ UNCHANGED <<movies, gone>>
       \/ /\ movies' = movies \ matched
          /\ gone' = gone \cup {OidToString(d._id) : d \in matched}
          /\ req' = [req EXCEPT ![r] =
                Respond(Returned(s), 200,
                   createSuccessResponse([deletedCount |-> Cardinality(matched)],
                      "Delete operation completed. Removed " \o ToString(Cardinality(matched))
                         \o " documents."))]
    /\ UNCHANGED <<usedIds, created, modified>>

(***************************************************************************)
(* controllers/movieController.ts: query parameters                        *)
(***************************************************************************)
\* A query-string value is a sequence of characters; parseInt reads an
\* optional sign and the leading decimal digits, and gives NaN without any.
DigitChars == <<"0", "1", "2", "3", "4", "5", "6", "7", "8", "9">>
IsDigit(c) == \E i \in DOMAIN DigitChars : DigitChars[i] = c
DigitVal(c) == (CHOOSE i \in DOMAIN DigitChars : DigitChars[i] = c) - 1

RECURSIVE SkipSpace(_)
SkipSpace(str) ==
    IF str # <<>> /\ Head(str) = " " THEN SkipSpace(Tail(str)) ELSE str

RECURSIVE ReadDigits(_, _, _)
ReadDigits(str, acc, seen) ==
    IF str # <<>> /\ IsDigit(Head(str))
    THEN ReadDigits(Tail(str), 10 * acc + DigitVal(Head(str)), TRUE)
    ELSE [nan |-> ~seen, val |-> acc]

HexChars == <<"a", "b", "c", "d", "e", "f">>
HexUpperChars == <<"A", "B", "C", "D", "E", "F">>
IsHexDigit(c) ==
    IsDigit(c) \/ \E i \in DOMAIN HexChars : c \in {HexChars[i], HexUpperChars[i]}
HexVal(c) ==
    IF IsDigit(c) THEN DigitVal(c)
    ELSE 9 + (CHOOSE i \in DOMAIN HexChars : c \in {HexChars[i], HexUpperChars[i]})

RECURSIVE ReadHexDigits(_, _, _)
ReadHexDigits(str, acc, seen) ==
    IF str # <<>> /\ IsHexDigit(Head(str))
    THEN ReadHexDigits(Tail(str), 16 * acc + HexVal(Head(str)), TRUE)
    ELSE [nan |-> ~seen, val |-> acc]

\* parseInt(str), no radix given: leading white space is skipped, then an
\* optional sign, then the digits (base 16 after "0x" or "0X", else base 10);
\* what follows the digits is ignored, and no digit at all is NaN
parseInt(str) ==
    LET t == SkipSpace(str)
        neg == t # <<>> /\ Head(t) = "-"
        u == IF t # <<>> /\ Head(t) \in {"-", "+"} THEN Tail(t) ELSE t
        hex == Len(u) >= 2 /\ u[1] = "0" /\ u[2] \in {"x", "X"}
        n == IF hex THEN ReadHexDigits(Tail(Tail(u)), 0, FALSE)
             ELSE ReadDigits(u, 0, FALSE) IN
    [nan |-> n.nan, val |-> IF neg THEN 0 - n.val ELSE n.val]

Min(a, b) == IF a <= b THEN a ELSE b
Max(a, b) == IF a >= b THEN a ELSE b

\* `parseInt(x) || dflt`: NaN and 0 are falsy
OrDefault(n, dflt) == IF n.nan \/ n.val = 0 THEN dflt ELSE n.val

ListDefaultLimit == 20
ListMaxLimit == 100

\* Math.min(Math.max(parseInt(limit) || 20, 1), 100), with `limit = "20"`
\* when the parameter is absent
ListLimit(q) ==
    Min(Max(OrDefault(parseInt(IF "limit" \in DOMAIN q THEN q.limit ELSE <<"2", "0">>),
                      ListDefaultLimit), 1), ListMaxLimit)

\* parseInt(skip) || 0, passed on as it is
SkipNum_unclamped(q) ==
    OrDefault(parseInt(IF "skip" \in DOMAIN q THEN q.skip ELSE <<"0">>), 0)

\* Math.max(parseInt(skip) || 0, 0), with `skip = "0"` when absent
SkipNum(q) ==
    Max(OrDefault(parseInt(IF "skip" \in DOMAIN q THEN q.skip ELSE <<"0">>), 0), 0)

\* the documents of a set in the store's own (identifier) order
IdRank(id) == CHOOSE i \in 1..MaxIds : IdOf(i) = id

RECURSIVE NaturalOrder(_)
NaturalOrder(docs) ==
    IF docs = {} THEN <<>>
    ELSE LET d == CHOOSE x \in docs : \A y \in docs : IdRank(x._id.oid) <= IdRank(y._id.oid)
         IN <<d>> \o NaturalOrder(docs \ {d})

\* cursor.skip(k).limit(n) on a result sequence
Page(seq, k, n) == SubSeq(seq, Min(k, Len(seq)) + 1, Min(Len(seq), k + n))

DocsJson(docs) == [i \in DOMAIN docs |-> DocJson(docs[i])]

(***************************************************************************)
(* controllers/movieController.ts: searchMovies                            *)
(***************************************************************************)
ValidOperators == {"must", "should", "mustNot", "filter"}
SearchFields == {"plot", "fullplot", "directors", "writers", "cast"}

\* the query strings a client may send to GET /api/movies/search
SearchQueries ==
    {EmptyObj,
     [searchOperator |-> "bogus"],
     [searchOperator |-> "should", limit |-> <<"0">>, skip |-> <<"-", "1">>],
     [plot |-> ""],
     [plot |-> "p"],
     [plot |-> "p", searchOperator |-> "bogus"],
     [cast |-> "c", searchOperator |-> "mustNot", limit |-> <<"1">>],
     [directors |-> "d", fullplot |-> "f", skip |-> <<"1">>]}

\* a clause for every supplied field, the empty ones too
SearchPhrases_keepsEmpty(q) == {f \in SearchFields : f \in DOMAIN q}

\* searchPhrases: one clause per supplied, non-empty field
SearchPhrases(q) == {f \in SearchFields : f \in DOMAIN q /\ q[f] # ""}

SearchOperator(q) == IF "searchOperator" \in DOMAIN q THEN q.searchOperator ELSE "must"

\* GET /api/movies/search, up to `await moviesCollection.aggregate(pipeline)`
searchMovies(r, q) ==
    /\ req[r].pc = "idle"
    /\ LET s == Begin("searchMovies", [q |-> q]) IN
       req' = [req EXCEPT ![r] =
          WithCollection(s,
             IF SearchOperator(q) \notin ValidOperators
             THEN Respond(s, 400,
                     createErrorResponse("Invalid search_operator '" \o SearchOperator(q)
                                            \o "'. Must be one of: must, should, mustNot, filter",
                                         "INVALID_SEARCH_OPERATOR", Undefined))
             ELSE IF SearchPhrases(q) = {}
             THEN Respond(s, 400,
                     createErrorResponse("At least one search parameter must be provided",
                                         "NO_SEARCH_PARAMETERS", Undefined))
             ELSE IssueWith(s, "aggregate", "aggregate",
                            [coll |-> "movies", limit |-> ListLimit(q), skip |-> SkipNum(q)]))]
    /\ UNCHANGED <<movies, usedIds, histVars>>

\* searchMovies after aggregate: the search index decides which documents
\* match (`hits`); $facet counts them and pages them
searchMovies_aggregate(r) ==
    /\ req[r].h = "searchMovies" /\ req[r].pc = "aggregate"
    /\ \E f \in ReadOutcomes, hits \in SUBSET movies :
         LET s == req[r]
             results == Page(NaturalOrder(hits), s.call.skip, s.call.limit) IN
         /\ f # "ok" => hits = {}
         /\ req' = [req EXCEPT ![r] =
               IF f # "ok" THEN Throw(s, MongoError(FaultCode(f)))
               ELSE Respond(Returned(s), 200,
                       createSuccessResponse(
                          [movies |-> DocsJson(results), totalCount |-> Cardinality(hits)],
                          "Found " \o ToString(Cardinality(hits))
                             \o " movies matching the search criteria"))]
    /\ UNCHANGED <<movies, usedIds, histVars>>

(***************************************************************************)
(* controllers/movieController.ts: getAllMovies                            *)
(***************************************************************************)
\* the query strings a client may send to GET /api/movies (year, limit, skip
\* and sortOrder; sortBy is left at its default, "title")
ListQueries ==
    {EmptyObj,
     [year |-> <<"1", "9", "9", "4">>],
     [year |-> <<"x">>, sortOrder |-> "desc"],
     [sortOrder |-> "desc", limit |-> <<"1">>],
     [sortOrder |-> "sideways", skip |-> <<"1">>]}

\* filter.year = parseInt(year): NaN equals no stored year
YearMatches(d, q) ==
    "year" \in DOMAIN q /\ q.year # <<>> =>
        /\ ~parseInt(q.year).nan
        /\ "year" \in DOMAIN d /\ d.year = parseInt(q.year).val

\* `sortOrder === "desc" ? -1 : 1`
\* descending for every sortOrder but "asc"
SortDirection_ascIfNamed(q) ==
    IF "sortOrder" \in DOMAIN q /\ q.sortOrder # "asc" THEN -1 ELSE 1

\* `sortOrder === "desc" ? -1 : 1`
SortDirection(q) == IF "sortOrder" \in DOMAIN q /\ q.sortOrder = "desc" THEN -1 ELSE 1

TitleRank(t) == IF t = "X" THEN 1 ELSE 2

\* .sort({ title: dir }): by title, ties in the store's own order
RECURSIVE SortByTitle(_, _)
SortByTitle(docs, dir) ==
    IF docs = {} THEN <<>>
    ELSE LET first == {x \in docs : \A y \in docs :
                          dir * TitleRank(x.title) <= dir * TitleRank(y.title)}
             d == NaturalOrder(first)[1]
         IN <<d>> \o SortByTitle(docs \ {d}, dir)

\* GET /api/movies, up to `await moviesCollection.find(...)...toArray()`
getAllMovies(r, q) ==
    /\ req[r].pc = "idle"
    /\ LET s == Begin("getAllMovies", [q |-> q]) IN
       req' = [req EXCEPT ![r] =
          WithCollection(s,
             IssueWith(s, "find", "find",
                       [coll |-> "movies", sort |-> SortDirection(q),
                        limit |-> ListLimit(q), skip |-> SkipNum(q)]))]
    /\ UNCHANGED <<movies, usedIds, histVars>>

\* getAllMovies after find
getAllMovies_find(r) ==
    /\ req[r].h = "getAllMovies" /\ req[r].pc = "find"
    /\ \E f \in ReadOutcomes :
         LET s == req[r]
             found == Page(SortByTitle({d \in movies : YearMatches(d, s.in.q)},
                                       s.call.sort),
                           s.call.skip, s.call.limit) IN
         req' = [req EXCEPT ![r] =
            IF f # "ok" THEN Throw(s, MongoError(FaultCode(f)))
            ELSE Respond(Returned(s), 200,
                    createSuccessResponse(DocsJson(found),
                       "Found " \o ToString(Len(found)) \o " movies"))]
    /\ UNCHANGED <<movies, usedIds, histVars>>

(***************************************************************************)
(* controllers/movieController.ts: getMoviesWithMostRecentComments         *)
(***************************************************************************)
CommentsDefaultLimit == 10
CommentsMaxLimit == 50
YearMin == 1800
YearMax == 2030
MovieCapOne == 50
MovieCapAll == 20

\* the collection "comments": written by other programs, only read here
Comments ==
    {[_id |-> "c1", name |-> "Ann", text |-> "t1", date |-> 1, movie_id |-> ObjectId("id1")],
     [_id |-> "c2", name |-> "Bob", text |-> "t2", date |-> 3, movie_id |-> ObjectId("id1")],
     [_id |-> "c3", name |-> "Cy", text |-> "t3", date |-> 2, movie_id |-> ObjectId("id1")]}

\* a query value: a string, or the array a repeated parameter parses to
Str(v) == [kind |-> "string", v |-> v]
Arr(v) == [kind |-> "array", items |-> v]

\* the query strings a client may send to .../reportingByComments
CommentQueries ==
    {EmptyObj,
     [limit |-> <<"1">>],
     [movieId |-> Str("id1")],
     [movieId |-> Str("id2"), limit |-> <<"0">>],
     [movieId |-> Str("zz")],
     [movieId |-> Str("")],
     [movieId |-> Arr(<<"zz", "zz">>)]}

CommentsLimit(q) ==
    Min(Max(OrDefault(parseInt(IF "limit" \in DOMAIN q THEN q.limit ELSE <<"1", "0">>),
                      CommentsDefaultLimit), 1), CommentsMaxLimit)

\* `movieId && typeof movieId === "string"`
MovieIdGiven(q) ==
    "movieId" \in DOMAIN q /\ q.movieId.kind = "string" /\ q.movieId.v # ""

\* `movieId ? 50 : 20`: an array is truthy, "" is not
MovieIdTruthy(q) ==
    "movieId" \in DOMAIN q /\ (q.movieId.kind = "array" \/ q.movieId.v # "")

\* stage 6, `$limit: movieId ? 50 : 20`
MovieCap(q) == IF MovieIdTruthy(q) THEN MovieCapOne ELSE MovieCapAll

\* $sortArray by date descending
RECURSIVE SortByDateDesc(_)
SortByDateDesc(cs) ==
    IF cs = {} THEN <<>>
    ELSE LET c == CHOOSE x \in cs : \A y \in cs : x.date >= y.date
         IN <<c>> \o SortByDateDesc(cs \ {c})

MaxDate(cs) == CHOOSE t \in {c.date : c \in cs} : \A c \in cs : c.date <= t

CommentJson(c) == [_id |-> c._id, userName |-> c.name, text |-> c.text, date |-> c.date]

\* stages 1-3: movies of a valid year (and the one asked for) that have comments
CommentedMovies(q) ==
    {d \in movies :
        /\ "year" \in DOMAIN d /\ d.year >= YearMin /\ d.year <= YearMax
        /\ MovieIdGiven(q) => d._id = ObjectId(q.movieId.v)
        /\ \E c \in Comments : c.movie_id = d._id}

\* stage 5: movies by their most recent comment, newest first
RECURSIVE SortByRecency(_)
SortByRecency(docs) ==
    IF docs = {} THEN <<>>
    ELSE LET newest == {x \in docs : \A y \in docs :
                          MaxDate({c \in Comments : c.movie_id = x._id}) >=
                          MaxDate({c \in Comments : c.movie_id = y._id})}
             d == NaturalOrder(newest)[1]
         IN <<d>> \o SortByRecency(docs \ {d})

\* totalComments taken from the comments kept by $slice
CommentRow_countsKept(d, limitNum) ==
    LET cs == {c \in Comments : c.movie_id = d._id}
        recent == SubSeq(SortByDateDesc(cs), 1, Min(limitNum, Cardinality(cs))) IN
    [_id |-> OidToString(d._id), title |-> d.title, year |-> d.year,
     recentComments |-> [i \in DOMAIN recent |-> CommentJson(recent[i])],
     totalComments |-> Len(recent)]

\* stages 4 and 7 for one movie
CommentRow(d, limitNum) ==
    LET cs == {c \in Comments : c.movie_id = d._id} IN
    [_id |-> OidToString(d._id), title |-> d.title, year |-> d.year,
     recentComments |->
        LET recent == SubSeq(SortByDateDesc(cs), 1, Min(limitNum, Cardinality(cs))) IN
        [i \in DOMAIN recent |-> CommentJson(recent[i])],
     totalComments |-> Cardinality(cs)]

CommentsReport(q, limitNum) ==
    LET capped == SubSeq(SortByRecency(CommentedMovies(q)), 1,
                         Min(Cardinality(CommentedMovies(q)), MovieCap(q))) IN
    [i \in DOMAIN capped |-> CommentRow(capped[i], limitNum)]

RECURSIVE SumTotals(_)
SumTotals(rows) ==
    IF rows = <<>> THEN 0 ELSE Head(rows).totalComments + SumTotals(Tail(rows))

\* GET .../reportingByComments, up to `await moviesCollection.aggregate(pipeline)`
getMoviesWithMostRecentComments(r, q) ==
    /\ req[r].pc = "idle"
    /\ LET s == Begin("getMoviesWithMostRecentComments", [q |-> q]) IN
       req' = [req EXCEPT ![r] =
          WithCollection(s,
             IF MovieIdGiven(q) /\ RejectsId(q.movieId.v)
             THEN Respond(s, 400, InvalidIdResponse)
             ELSE IssueWith(s, "aggregate", "aggregate",
                            [coll |-> "movies", limit |-> CommentsLimit(q),
                             id |-> IF MovieIdGiven(q)
                                    THEN Some(ObjectId(q.movieId.v)) ELSE Undefined,
                             cap |-> MovieCap(q)]))]
    /\ UNCHANGED <<movies, usedIds, histVars>>

\* getMoviesWithMostRecentComments after aggregate
getMoviesWithMostRecentComments_aggregate(r) ==
    /\ req[r].h = "getMoviesWithMostRecentComments" /\ req[r].pc = "aggregate"
    /\ \E f \in ReadOutcomes :
         LET s == req[r]
             rows == CommentsReport(s.in.q, s.call.limit) IN
         req' = [req EXCEPT ![r] =
            IF f # "ok" THEN Throw(s, MongoError(FaultCode(f)))
            ELSE Respond(Returned(s), 200,
                    createSuccessResponse(rows,
                       IF MovieIdTruthy(s.in.q)
                       THEN "Found " \o ToString(SumTotals(rows)) \o " comments from movie"
                       ELSE "Found " \o ToString(SumTotals(rows)) \o " comments from "
                               \o ToString(Len(rows)) \o " movie"
                               \o (IF Len(rows) # 1 THEN "s" ELSE "")))]
    /\ UNCHANGED <<movies, usedIds, histVars>>

(***************************************************************************)
(* controllers/movieController.ts: vectorSearchMovies                      *)
(***************************************************************************)
VectorDefaultLimit == 20
VectorMaxLimit == 50
VectorCandidateFactor == 20

\* the query strings a client may send to GET /api/movies/vector-search
VectorQueries ==
    {EmptyObj,
     [q |-> Str(<<>>)],
     [q |-> Str(<<" ", " ">>)],
     [q |-> Arr(<<"a", "b">>)],
     [q |-> Str(<<"c", "a", "t">>)],
     [q |-> Str(<<"c", "a", "t">>), limit |-> <<"1">>]}

\* the characters of a query value as one string
RECURSIVE Text(_)
Text(chars) == IF chars = <<>> THEN "" ELSE Head(chars) \o Text(Tail(chars))

\* `!q || typeof q !== "string" || q.trim().length === 0`
NoQueryText(q) ==
    \/ "q" \notin DOMAIN q
    \/ q.q.kind # "string"
    \/ SkipSpace(q.q.v) = <<>>

\* the key counts as configured as soon as the variable is set
NoApiKey_unsetOnly == voyageKey = Undefined

\* `!process.env.VOYAGE_API_KEY || process.env.VOYAGE_API_KEY.trim().length === 0`
NoApiKey == voyageKey = Undefined \/ SkipSpace(voyageKey[1]) = <<>>

\* Math.min(Math.max(parseInt(limit) || 20, 1), 50), with `limit = "10"` when absent
VectorLimit(q) ==
    Min(Max(OrDefault(parseInt(IF "limit" \in DOMAIN q THEN q.limit ELSE <<"1", "0">>),
                      VectorDefaultLimit), 1), VectorMaxLimit)

\* the `catch (error)` of vectorSearchMovies
VectorSearchError(s, err) ==
    Respond(s, 500,
        createErrorResponse("Error performing vector search", "VECTOR_SEARCH_ERROR",
                            Some(err.message)))

\* what the embedding provider may do, and the error generateVoyageEmbedding
\* throws for it
EmbeddingOutcomes == {"ok", "http401", "http500", "transport", "format"}
EmbeddingError(o) ==
    Error(IF o = "http401" THEN "Failed to generate embedding: Voyage AI API returned status 401: "
          ELSE IF o = "http500" THEN "Failed to generate embedding: Voyage AI API returned status 500: "
          ELSE IF o = "format" THEN "Failed to generate embedding: Invalid response format from Voyage AI API"
          ELSE "Failed to generate embedding: fetch failed")

\* what $vectorSearch on embedded_movies may return: identifiers with scores,
\* best first (the collection and its index are outside this program)
VectorHits ==
    {<<>>,
     <<[_id |-> ObjectId("id1"), score |-> 9]>>,
     <<[_id |-> ObjectId("id2"), score |-> 9], [_id |-> ObjectId("id1"), score |-> 5]>>}

\* GET /api/movies/vector-search, up to `await generateVoyageEmbedding(...)`
vectorSearchMovies(r, q) ==
    /\ req[r].pc = "idle"
    /\ LET s == Begin("vectorSearchMovies", [q |-> q]) IN
       req' = [req EXCEPT ![r] =
          IF NoQueryText(q)
          THEN Respond(s, 400, createErrorResponse("Search query is required",
                                                   "MISSING_QUERY_PARAMETER", Undefined))
          ELSE IF NoApiKey
          THEN Respond(s, 400,
                  createErrorResponse("Vector search unavailable: VOYAGE_API_KEY not configured. Please add your API key to the .env file",
                                      "SERVICE_UNAVAILABLE", Undefined))
          ELSE [s EXCEPT !.pc = "embed", !.provider = @ + 1]]
    /\ UNCHANGED <<movies, usedIds, histVars>>

\* vectorSearchMovies after the embedding call, up to the $vectorSearch aggregate
vectorSearchMovies_embed(r) ==
    /\ req[r].h = "vectorSearchMovies" /\ req[r].pc = "embed"
    /\ \E o \in EmbeddingOutcomes :
         LET s == [req[r] EXCEPT !.embed = o]
             limitNum == VectorLimit(s.in.q) IN
         req' = [req EXCEPT ![r] =
            IF o # "ok" THEN VectorSearchError(s, EmbeddingError(o))
            ELSE IF getCollectionThrows
            THEN VectorSearchError(s, Error("Database not connected."))
            ELSE IssueWith(s, "aggregate", "vectorSearch",
                           [coll |-> "embedded_movies", limit |-> limitNum,
                            numCandidates |-> limitNum * VectorCandidateFactor])]
    /\ UNCHANGED <<movies, usedIds, histVars>>

\* vectorSearchMovies after the $vectorSearch aggregate on embedded_movies
vectorSearchMovies_vectorSearch(r) ==
    /\ req[r].h = "vectorSearchMovies" /\ req[r].pc = "vectorSearch"
    /\ \E f \in ReadOutcomes, hits \in VectorHits :
         LET s == req[r]
             vectorResults == SubSeq(hits, 1, Min(Len(hits), s.call.limit)) IN
         /\ f # "ok" => hits = <<>>
         /\ req' = [req EXCEPT ![r] =
               IF f # "ok" THEN VectorSearchError(s, MongoError(FaultCode(f)))
               ELSE IF Len(vectorResults) = 0
               THEN Respond(Returned(s), 200,
                            createSuccessResponse(<<>>,
                               "No similar movies found for query: '" \o Text(s.in.q.q.v) \o "'"))
               ELSE IF getCollectionThrows
               THEN VectorSearchError(Returned(s), Error("Database not connected."))
               ELSE IssueWith([Returned(s) EXCEPT !.vec = vectorResults], "aggregate", "fetch",
                              [coll |-> "movies",
                               ids |-> {vectorResults[i]._id : i \in DOMAIN vectorResults}])]
    /\ UNCHANGED <<movies, usedIds, histVars>>

\* scoreMap.get(id) || 0 (a later entry of the Map constructor overwrites)
ScoreOf(vec, oid) ==
    IF \E i \in DOMAIN vec : vec[i]._id = oid
    THEN vec[CHOOSE i \in DOMAIN vec : vec[i]._id = oid /\
                      \A j \in DOMAIN vec : vec[j]._id = oid => j <= i].score
    ELSE 0

\* one element of finalResults
VectorRow(d, vec) ==
    SetFields(IF "year" \in DOMAIN d THEN [year |-> d.year] ELSE EmptyObj,
              [_id |-> OidToString(d._id),
               title |-> IF "title" \in DOMAIN d THEN d.title ELSE "",
               genres |-> <<>>, directors |-> <<>>, cast |-> <<>>,
               score |-> ScoreOf(vec, d._id)])

\* finalResults left in the order the movies collection returned them
SortByScore_asFetched(rows) == rows

\* finalResults.sort((a, b) => b.score - a.score): stable, best score first
RECURSIVE SortByScore(_)
SortByScore(rows) ==
    IF rows = <<>> THEN <<>>
    ELSE LET i == CHOOSE k \in DOMAIN rows :
                     /\ \A j \in DOMAIN rows : rows[j].score <= rows[k].score
                     /\ \A j \in 1..(k - 1) : rows[j].score < rows[k].score
         IN <<rows[i]>> \o SortByScore(SubSeq(rows, 1, i - 1) \o SubSeq(rows, i + 1, Len(rows)))

\* vectorSearchMovies after the aggregate on movies that fetches the documents
vectorSearchMovies_fetch(r) ==
    /\ req[r].h = "vectorSearchMovies" /\ req[r].pc = "fetch"
    /\ \E f \in ReadOutcomes :
         LET s == req[r]
             movieResults == NaturalOrder({d \in movies : d._id \in s.call.ids})
             finalResults == SortByScore([i \in DOMAIN movieResults |->
                                             VectorRow(movieResults[i], s.vec)]) IN
         req' = [req EXCEPT ![r] =
            IF f # "ok" THEN VectorSearchError(s, MongoError(FaultCode(f)))
            ELSE Respond(Returned(s), 200,
                    createSuccessResponse(finalResults,
                       "Found " \o ToString(Len(finalResults)) \o " similar movies for query: '"
                          \o Text(s.in.q.q.v) \o "'"))]
    /\ UNCHANGED <<movies, usedIds, histVars>>

(***************************************************************************)
(* controllers/movieController.ts: the year and director reports           *)
(***************************************************************************)
ValidYear(d) == "year" \in DOMAIN d /\ d.year >= YearMin /\ d.year <= YearMax

RECURSIVE YearsDesc(_)
YearsDesc(ys) ==
    IF ys = {} THEN <<>>
    ELSE LET y == CHOOSE x \in ys : \A z \in ys : z <= x
         IN <<y>> \o YearsDesc(ys \ {y})

\* a rating or an average x is written as the integer RatingScale * x, two
\* decimals kept
RatingScale == 100

\* a number of a JSON answer, as opposed to null
Num(v) == [num |-> v]

\* the BSON type under which insertOne stores a number of the request body:
\* a JavaScript number with an integral value (8.0 is 8) is written as a
\* 32-bit integer, any other as a double
BsonType(x) == IF x % RatingScale = 0 THEN "int" ELSE "double"

\* the $cond of the three accumulators: imdb.rating is there, and a double
HasDoubleRating(d) ==
    /\ "imdb" \in DOMAIN d /\ "rating" \in DOMAIN d.imdb
    /\ BsonType(d.imdb.rating) = "double"

RECURSIVE SumRatings(_)
SumRatings(docs) ==
    IF docs = {} THEN 0
    ELSE LET d == CHOOSE x \in docs : TRUE IN d.imdb.rating + SumRatings(docs \ {d})

RECURSIVE SumVotes(_)
SumVotes(docs) ==
    IF docs = {} THEN 0
    ELSE LET d == CHOOSE x \in docs : TRUE IN
         (IF "imdb" \in DOMAIN d /\ "votes" \in DOMAIN d.imdb THEN d.imdb.votes ELSE 0)
            + SumVotes(docs \ {d})

\* $round: [num / den, 2] on scaled integers, a tie going to the even digit
RoundedQuotient(num, den) ==
    LET q == num \div den
        rest == num % den IN
    IF 2 * rest > den \/ (2 * rest = den /\ q % 2 = 1) THEN q + 1 ELSE q

\* one group of the $group stage, shaped by $project: $avg, $max and $min
\* over no value give null
YearRow(y) ==
    LET group == {d \in movies : ValidYear(d) /\ d.year = y}
        rated == {d \in group : HasDoubleRating(d)}
        ratings == {d.imdb.rating : d \in rated} IN
    [year |-> y, movieCount |-> Cardinality(group),
     averageRating |-> IF rated = {} THEN Null
                       ELSE Num(RoundedQuotient(SumRatings(rated), Cardinality(rated))),
     highestRating |-> IF rated = {} THEN Null
                       ELSE Num(CHOOSE x \in ratings : \A z \in ratings : z <= x),
     lowestRating |-> IF rated = {} THEN Null
                      ELSE Num(CHOOSE x \in ratings : \A z \in ratings : x <= z),
     totalVotes |-> SumVotes(group)]

YearStats ==
    LET years == YearsDesc({d.year : d \in {m \in movies : ValidYear(m)}}) IN
    [i \in DOMAIN years |-> YearRow(years[i])]

\* GET .../reportingByYear, up to `await moviesCollection.aggregate(pipeline)`
getMoviesByYearWithStats(r) ==
    /\ req[r].pc = "idle"
    /\ LET s == Begin("getMoviesByYearWithStats", EmptyObj) IN
       req' = [req EXCEPT ![r] = WithCollection(s, Issue(s, "aggregate"))]
    /\ UNCHANGED <<movies, usedIds, histVars>>

\* getMoviesByYearWithStats after aggregate
getMoviesByYearWithStats_aggregate(r) ==
    /\ req[r].h = "getMoviesByYearWithStats" /\ req[r].pc = "aggregate"
    /\ \E f \in ReadOutcomes :
         LET s == req[r] IN
         req' = [req EXCEPT ![r] =
            IF f # "ok" THEN Throw(s, MongoError(FaultCode(f)))
            ELSE Respond(Returned(s), 200,
                    createSuccessResponse(YearStats,
                       "Aggregated statistics for " \o ToString(Len(YearStats)) \o " years"))]
    /\ UNCHANGED <<movies, usedIds, histVars>>

DirectorsDefaultLimit == 20
DirectorsMaxLimit == 100

DirectorQueries == {EmptyObj, [limit |-> <<"1">>]}

DirectorsLimit(q) ==
    Min(Max(OrDefault(parseInt(IF "limit" \in DOMAIN q THEN q.limit ELSE <<"2", "0">>),
                      DirectorsDefaultLimit), 1), DirectorsMaxLimit)

\* stages 1-3: the director names of the movies with a valid year, "" and
\* null dropped
DirectorNames ==
    UNION {Range(d.directors) : d \in {m \in movies : "directors" \in DOMAIN m /\ ValidYear(m)}}
       \ {""}

\* $sum: 1 over the unwound entries of one name
DirectorCount(name) ==
    LET S == {<<d, i>> \in movies \X (1..MaxIds) :
                 /\ "directors" \in DOMAIN d /\ ValidYear(d)
                 /\ i \in DOMAIN d.directors /\ d.directors[i] = name} IN
    Cardinality(S)

\* stages 4-5: directors by their number of movies, most first
RECURSIVE DirectorsByCount(_)
DirectorsByCount(names) ==
    IF names = {} THEN <<>>
    ELSE LET n == CHOOSE x \in names : \A y \in names : DirectorCount(y) <= DirectorCount(x)
         IN <<[director |-> n, movieCount |-> DirectorCount(n), averageRating |-> Null]>>
            \o DirectorsByCount(names \ {n})

DirectorStats(limitNum) ==
    LET all == DirectorsByCount(DirectorNames) IN
    SubSeq(all, 1, Min(Len(all), limitNum))

\* GET .../reportingByDirectors, up to `await moviesCollection.aggregate(pipeline)`
getDirectorsWithMostMovies(r, q) ==
    /\ req[r].pc = "idle"
    /\ LET s == Begin("getDirectorsWithMostMovies", [q |-> q]) IN
       req' = [req EXCEPT ![r] =
          WithCollection(s,
             IssueWith(s, "aggregate", "aggregate",
                       [coll |-> "movies", limit |-> DirectorsLimit(q)]))]
    /\ UNCHANGED <<movies, usedIds, histVars>>

\* getDirectorsWithMostMovies after aggregate
getDirectorsWithMostMovies_aggregate(r) ==
    /\ req[r].h = "getDirectorsWithMostMovies" /\ req[r].pc = "aggregate"
    /\ \E f \in ReadOutcomes :
         LET s == req[r]
             results == DirectorStats(s.call.limit) IN
         req' = [req EXCEPT ![r] =
            IF f # "ok" THEN Throw(s, MongoError(FaultCode(f)))
            ELSE Respond(Returned(s), 200,
                    createSuccessResponse(results,
                       "Found " \o ToString(Len(results)) \o " directors with most movies"))]
    /\ UNCHANGED <<movies, usedIds, histVars>>

\* the response has gone out; the slot takes the next request
Finish(r) ==
    /\ req[r].pc = "done"
    /\ req' = [req EXCEPT ![r] = IdleSlot]
    /\ UNCHANGED <<movies, usedIds, histVars>>

(***************************************************************************)
(* The server after startServer() has connected and is listening. Spec     *)
(* takes the requests one at a time (the slot req[1]): each request runs   *)
(* from its first segment to its response before the next one starts.      *)
(***************************************************************************)
Init ==
    /\ uri = "set"
    /\ connectP = 1
    /\ promises = <<[state |-> "fulfilled", value |-> 1, error |-> ""]>>
    /\ database = 1
    /\ client = 1
    /\ connectCalls = 1
    /\ callers = <<>>
    /\ movies = {}
    /\ usedIds = {}
    /\ req = [r \in {1} |-> IdleSlot]
    /\ voyageKey \in {Undefined, Some(<<"k", "e", "y">>)}
    /\ created = <<>>
    /\ modified = {}
    /\ gone = {}
    /\ server = Serving
    /\ indexes = {IdIndex, TextIndex("text_search_index")}

Next ==
    \/ \E r \in DOMAIN req, id \in RawIds : getMovieById(r, id) /\ UNCHANGED envVars
    \/ \E r \in DOMAIN req : getMovieById_findOne(r) /\ UNCHANGED envVars
    \/ \E r \in DOMAIN req, body \in CreateBodies : createMovie(r, body) /\ UNCHANGED envVars
    \/ \E r \in DOMAIN req : createMovie_insertOne(r) /\ UNCHANGED envVars
    \/ \E r \in DOMAIN req : createMovie_findOne(r) /\ UNCHANGED envVars
    \/ \E r \in DOMAIN req, id \in RawIds, body \in UpdateBodies :
          updateMovie(r, id, body) /\ UNCHANGED envVars
    \/ \E r \in DOMAIN req : updateMovie_updateOne(r) /\ UNCHANGED envVars
    \/ \E r \in DOMAIN req : updateMovie_findOne(r) /\ UNCHANGED envVars
    \/ \E r \in DOMAIN req, id \in RawIds : deleteMovie(r, id) /\ UNCHANGED envVars
    \/ \E r \in DOMAIN req : deleteMovie_deleteOne(r) /\ UNCHANGED envVars
    \/ \E r \in DOMAIN req, id \in RawIds : findAndDeleteMovie(r, id) /\ UNCHANGED envVars
    \/ \E r \in DOMAIN req : findAndDeleteMovie_findOneAndDelete(r) /\ UNCHANGED envVars
    \/ \E r \in DOMAIN req, body \in BatchCreateBodies :
          createMoviesBatch(r, body) /\ UNCHANGED envVars
    \/ \E r \in DOMAIN req : createMoviesBatch_insertMany(r) /\ UNCHANGED envVars
    \/ \E r \in DOMAIN req, body \in BatchUpdateBodies :
          updateMoviesBatch(r, body) /\ UNCHANGED envVars
    \/ \E r \in DOMAIN req : updateMoviesBatch_updateMany(r) /\ UNCHANGED envVars
    \/ \E r \in DOMAIN req, body \in BatchDeleteBodies :
          deleteMoviesBatch(r, body) /\ UNCHANGED envVars
    \/ \E r \in DOMAIN req : deleteMoviesBatch_deleteMany(r) /\ UNCHANGED envVars
    \/ \E r \in DOMAIN req, q \in SearchQueries : searchMovies(r, q) /\ UNCHANGED envVars
    \/ \E r \in DOMAIN req : searchMovies_aggregate(r) /\ UNCHANGED envVars
    \/ \E r \in DOMAIN req, q \in ListQueries : getAllMovies(r, q) /\ UNCHANGED envVars
    \/ \E r \in DOMAIN req : getAllMovies_find(r) /\ UNCHANGED envVars
    \/ \E r \in DOMAIN req, q \in CommentQueries :
          getMoviesWithMostRecentComments(r, q) /\ UNCHANGED envVars
    \/ \E r \in DOMAIN req : getMoviesWithMostRecentComments_aggregate(r) /\ UNCHANGED envVars
    \/ \E r \in DOMAIN req, q \in VectorQueries : vectorSearchMovies(r, q) /\ UNCHANGED envVars
    \/ \E r \in DOMAIN req : vectorSearchMovies_embed(r) /\ UNCHANGED envVars
    \/ \E r \in DOMAIN req : vectorSearchMovies_vectorSearch(r) /\ UNCHANGED envVars
    \/ \E r \in DOMAIN req : vectorSearchMovies_fetch(r) /\ UNCHANGED envVars
    \/ \E r \in DOMAIN req : getMoviesByYearWithStats(r) /\ UNCHANGED envVars
    \/ \E r \in DOMAIN req : getMoviesByYearWithStats_aggregate(r) /\ UNCHANGED envVars
    \/ \E r \in DOMAIN req, q \in DirectorQueries :
          getDirectorsWithMostMovies(r, q) /\ UNCHANGED envVars
    \/ \E r \in DOMAIN req : getDirectorsWithMostMovies_aggregate(r) /\ UNCHANGED envVars
    \/ \E r \in DOMAIN req : Finish(r) /\ UNCHANGED envVars

Spec == Init /\ [][Next]_vars

(***************************************************************************)
(* routes/movies.ts: the GET routes, in the order they are registered. A   *)
(* path is what follows /api/movies/; "/:id" takes any single segment the  *)
(* routes before it have not taken.                                        *)
(***************************************************************************)
RouteGet(path) ==
    IF path = "" THEN "getAllMovies"
    ELSE IF path = "search" THEN "searchMovies"
    ELSE IF path = "vector-search" THEN "vectorSearchMovies"
    ELSE IF path = "aggregations/reportingByComments" THEN "getMoviesWithMostRecentComments"
    ELSE IF path = "aggregations/reportingByYear" THEN "getMoviesByYearWithStats"
    ELSE IF path = "aggregations/reportingByDirectors" THEN "getDirectorsWithMostMovies"
    ELSE "getMovieById"

\* the paths clients ask for, without a query string
GetPaths ==
    {"", "search", "vector-search", "aggregations/reportingByComments",
     "aggregations/reportingByYear", "aggregations/reportingByDirectors",
     "genres", IdOf(1), "zz"}

\* GET /api/movies/<path>: the router calls the handler of the first route
\* that matches, with the segment as req.params.id for "/:id"
routerGet(r, path) ==
    \/ RouteGet(path) = "getAllMovies" /\ getAllMovies(r, EmptyObj)
    \/ RouteGet(path) = "searchMovies" /\ searchMovies(r, EmptyObj)
    \/ RouteGet(path) = "vectorSearchMovies" /\ vectorSearchMovies(r, EmptyObj)
    \/ RouteGet(path) = "getMoviesWithMostRecentComments"
          /\ getMoviesWithMostRecentComments(r, EmptyObj)
    \/ RouteGet(path) = "getMoviesByYearWithStats" /\ getMoviesByYearWithStats(r)
    \/ RouteGet(path) = "getDirectorsWithMostMovies"
          /\ getDirectorsWithMostMovies(r, EmptyObj)
    \/ RouteGet(path) = "getMovieById" /\ getMovieById(r, path)

(***************************************************************************)
(* The read endpoints under every kind of raw `limit` and `skip`           *)
(*                                                                         *)
(* SpecQuery runs the same handlers as Spec, the read ones only, over a    *)
(* store that Spec reaches (two movies created in a batch, one of them     *)
(* retitled), and lets the client send as `limit` and `skip` every integer *)
(* from -MaxRaw to MaxRaw, a large one, and strings that are not numbers.  *)
(***************************************************************************)
MaxRaw == 120

RECURSIVE NatChars(_)
NatChars(n) ==
    IF n < 10 THEN <<DigitChars[n + 1]>>
    ELSE NatChars(n \div 10) \o <<DigitChars[(n % 10) + 1]>>

\* the decimal text of an integer, as it travels in a query string
IntChars(n) == IF n < 0 THEN <<"-">> \o NatChars(0 - n) ELSE NatChars(n)

LargeRaw == 1000
RawNumbers == (0 - MaxRaw)..MaxRaw \cup {LargeRaw}
NonNumeric == {<<>>, <<" ">>, <<"a", "b", "c">>, <<"x", "1">>, <<"-">>}
RawParams ==
    {IntChars(n) : n \in RawNumbers} \cup NonNumeric
       \cup {<<" ", "7">>, <<"7", "x">>, <<"0", "x", "1", "F">>}

LimitQueries == {EmptyObj} \cup {[limit |-> v] : v \in RawParams}
SkipQueries == {[skip |-> v] : v \in RawParams}

WideListQueries ==
    LimitQueries \cup SkipQueries
       \cup {[sortOrder |-> o] : o \in {"asc", "desc", "sideways", "", "DESC"}}
       \cup {[sortOrder |-> "descending", limit |-> <<"1">>, skip |-> <<"1">>],
             [limit |-> IntChars(LargeRaw), skip |-> IntChars(0 - 5)]}

WideSearchQueries ==
    {SetFields([plot |-> "p"], q) : q \in LimitQueries \cup SkipQueries}
       \cup {[plot |-> "p", searchOperator |-> o] :
                o \in ValidOperators \cup {"bogus", "MUST", ""}}
       \cup {[searchOperator |-> "bogus"], EmptyObj}

WideCommentQueries ==
    LimitQueries \cup {SetFields([movieId |-> Str("id1")], q) : q \in LimitQueries}
       \cup {[movieId |-> Str("id2")], [movieId |-> Str("zz")], [movieId |-> Str("")],
             [movieId |-> Arr(<<"id2", "id2">>)], [movieId |-> Arr(<<"zz", "id1">>)]}

Cat == <<"c", "a", "t">>
WideVectorQueries ==
    {SetFields([q |-> Str(Cat)], q) : q \in LimitQueries}
       \cup {EmptyObj, [q |-> Str(<<>>)], [q |-> Str(<<" ", " ">>)], [q |-> Arr(<<"a", "b">>)],
              [limit |-> <<"5">>]}

\* VOYAGE_API_KEY: not set, set to white space, set to a key
ApiKeys == {Undefined, Some(<<" ", " ">>), Some(<<>>), Some(<<"k", "e", "y">>)}

\* two movies inserted by one createMoviesBatch, the first then retitled by
\* updateMovie
Stock ==
    {NewDoc(ObjectId(IdOf(1)), SetFields(ValidMovie, Patch)),
     NewDoc(ObjectId(IdOf(2)), ValidMovie)}

InitQuery ==
    /\ uri = "set"
    /\ connectP = 1
    /\ promises = <<[state |-> "fulfilled", value |-> 1, error |-> ""]>>
    /\ database = 1
    /\ client = 1
    /\ connectCalls = 1
    /\ callers = <<>>
    /\ movies = Stock
    /\ usedIds = {IdOf(1), IdOf(2)}
    /\ req = [r \in {1} |-> IdleSlot]
    /\ voyageKey \in ApiKeys
    /\ created = <<>>
    /\ modified = {IdOf(1)}
    /\ gone = {}
    /\ server = Serving
    /\ indexes = {IdIndex, TextIndex("text_search_index")}

NextQuery ==
    \/ \E r \in DOMAIN req, path \in GetPaths : routerGet(r, path) /\ UNCHANGED envVars
    \/ \E r \in DOMAIN req : getMovieById_findOne(r) /\ UNCHANGED envVars
    \/ \E r \in DOMAIN req : getMoviesByYearWithStats_aggregate(r) /\ UNCHANGED envVars
    \/ \E r \in DOMAIN req, q \in WideListQueries : getAllMovies(r, q) /\ UNCHANGED envVars
    \/ \E r \in DOMAIN req : getAllMovies_find(r) /\ UNCHANGED envVars
    \/ \E r \in DOMAIN req, q \in WideSearchQueries : searchMovies(r, q) /\ UNCHANGED envVars
    \/ \E r \in DOMAIN req : searchMovies_aggregate(r) /\ UNCHANGED envVars
    \/ \E r \in DOMAIN req, q \in WideCommentQueries :
          getMoviesWithMostRecentComments(r, q) /\ UNCHANGED envVars
    \/ \E r \in DOMAIN req : getMoviesWithMostRecentComments_aggregate(r) /\ UNCHANGED envVars
    \/ \E r \in DOMAIN req, q \in WideVectorQueries : vectorSearchMovies(r, q) /\ UNCHANGED envVars
    \/ \E r \in DOMAIN req : vectorSearchMovies_embed(r) /\ UNCHANGED envVars
    \/ \E r \in DOMAIN req : vectorSearchMovies_vectorSearch(r) /\ UNCHANGED envVars
    \/ \E r \in DOMAIN req : vectorSearchMovies_fetch(r) /\ UNCHANGED envVars
    \/ \E r \in DOMAIN req, q \in LimitQueries :
          getDirectorsWithMostMovies(r, q) /\ UNCHANGED envVars
    \/ \E r \in DOMAIN req : getDirectorsWithMostMovies_aggregate(r) /\ UNCHANGED envVars
    \/ \E r \in DOMAIN req : Finish(r) /\ UNCHANGED envVars

SpecQuery == InitQuery /\ [][NextQuery]_vars

(***************************************************************************)
(* The year report over movies created through the API                     *)
(*                                                                         *)
(* SpecYear starts from the empty collection; clients create movies with   *)
(* a year and an imdb block and ask for the year report.                   *)
(***************************************************************************)
Rating(x) == [rating |-> x, votes |-> 1000]

\* the bodies sent to POST /api/movies: ratings 8.0, 9.0, 8.5 and 7.6
YearBodies ==
    {[title |-> "X", year |-> 2023, imdb |-> Rating(800)],
     [title |-> "X", year |-> 2023, imdb |-> Rating(900)],
     [title |-> "X", year |-> 2023, imdb |-> Rating(850)],
     [title |-> "X", year |-> 2023, imdb |-> Rating(760)],
     [title |-> "X", year |-> 1994],
     [title |-> "X", year |-> 1700, imdb |-> Rating(850)]}

InitYear == Init /\ voyageKey = Undefined

NextYear ==
    \/ \E r \in DOMAIN req, body \in YearBodies : createMovie(r, body) /\ UNCHANGED envVars
    \/ \E r \in DOMAIN req : createMovie_insertOne(r) /\ UNCHANGED envVars
    \/ \E r \in DOMAIN req : createMovie_findOne(r) /\ UNCHANGED envVars
    \/ \E r \in DOMAIN req : getMoviesByYearWithStats(r) /\ UNCHANGED envVars
    \/ \E r \in DOMAIN req : getMoviesByYearWithStats_aggregate(r) /\ UNCHANGED envVars
    \/ \E r \in DOMAIN req : Finish(r) /\ UNCHANGED envVars

SpecYear == InitYear /\ [][NextYear]_vars

(***************************************************************************)
(* Requests handled while the connection is being established              *)
(*                                                                         *)
(* SpecEarly puts the handlers next to one caller of connectToDatabase     *)
(* that has not called yet: a request may be handled before the call,      *)
(* while client.connect() is in flight, after it failed, or after it       *)
(* succeeded.                                                              *)
(***************************************************************************)
InitEarly ==
    /\ uri \in {"unset", "set"}
    /\ connectP = 0
    /\ promises = <<>>
    /\ database = 0
    /\ client = 0
    /\ connectCalls = 0
    /\ callers = <<IdleCaller>>
    /\ movies = {}
    /\ usedIds = {}
    /\ req = [r \in {1} |-> IdleSlot]
    /\ voyageKey = Some(<<"k", "e", "y">>)
    /\ created = <<>>
    /\ modified = {}
    /\ gone = {}
    /\ server = NotStarted
    /\ indexes = {IdIndex, TextIndex("text_search_index")}

NextEarly ==
    \/ \E c \in DOMAIN callers : connectToDatabase(c) /\ UNCHANGED apiVars
    \/ \E p \in DOMAIN promises : ConnectResolves(p) /\ UNCHANGED apiVars
    \/ \E p \in DOMAIN promises : ConnectRejects(p) /\ UNCHANGED apiVars
    \/ \E c \in DOMAIN callers : connectToDatabaseResume(c) /\ UNCHANGED apiVars
    \/ \E c \in DOMAIN callers : CallerReturns(c) /\ UNCHANGED apiVars
    \/ \E r \in DOMAIN req, path \in GetPaths : routerGet(r, path) /\ UNCHANGED envVars
    \/ \E r \in DOMAIN req, q \in VectorQueries : vectorSearchMovies(r, q) /\ UNCHANGED envVars
    \/ \E r \in DOMAIN req, body \in CreateBodies : createMovie(r, body) /\ UNCHANGED envVars
    \/ \E r \in DOMAIN req, id \in RawIds : deleteMovie(r, id) /\ UNCHANGED envVars
    \/ \E r \in DOMAIN req, body \in BatchDeleteBodies :
          deleteMoviesBatch(r, body) /\ UNCHANGED envVars
    \/ \E r \in DOMAIN req : getAllMovies_find(r) /\ UNCHANGED envVars
    \/ \E r \in DOMAIN req : getMoviesWithMostRecentComments_aggregate(r) /\ UNCHANGED envVars
    \/ \E r \in DOMAIN req : getMoviesByYearWithStats_aggregate(r) /\ UNCHANGED envVars
    \/ \E r \in DOMAIN req : getDirectorsWithMostMovies_aggregate(r) /\ UNCHANGED envVars
    \/ \E r \in DOMAIN req : getMovieById_findOne(r) /\ UNCHANGED envVars
    \/ \E r \in DOMAIN req : vectorSearchMovies_embed(r) /\ UNCHANGED envVars
    \/ \E r \in DOMAIN req : vectorSearchMovies_vectorSearch(r) /\ UNCHANGED envVars
    \/ \E r \in DOMAIN req : vectorSearchMovies_fetch(r) /\ UNCHANGED envVars
    \/ \E r \in DOMAIN req : createMovie_insertOne(r) /\ UNCHANGED envVars
    \/ \E r \in DOMAIN req : createMovie_findOne(r) /\ UNCHANGED envVars
    \/ \E r \in DOMAIN req : deleteMovie_deleteOne(r) /\ UNCHANGED envVars
    \/ \E r \in DOMAIN req : deleteMoviesBatch_deleteMany(r) /\ UNCHANGED envVars
    \/ \E r \in DOMAIN req : Finish(r) /\ UNCHANGED envVars

SpecEarly == InitEarly /\ [][NextEarly]_vars

(***************************************************************************)
(* Claims                                                                  *)
(***************************************************************************)

(***************************************************************************)
(* What a request shows of itself: its input, the store operations it has  *)
(* issued, and the response it sent                                        *)
(***************************************************************************)
Active == {r \in DOMAIN req : req[r].pc # "idle"}

\* the request has been answered, once
Answered(s) == s.pc = "done" /\ Len(s.resp) = 1

\* ... with this status and a failure envelope carrying this code
Failure(s, status, code) ==
    /\ Answered(s)
    /\ s.resp[1].status = status
    /\ s.resp[1].body.success = FALSE
    /\ s.resp[1].body.error.code = code

TakesId == {"getMovieById", "updateMovie", "deleteMovie", "findAndDeleteMovie"}

\* the request carries an identifier that is not a valid ObjectId: in the path,
\* or as the (non-empty, single) movieId of the comments report
CarriesMalformedId(s) ==
    \/ s.h \in TakesId /\ ~ObjectIdIsValid(s.in.id)
    \/ /\ s.h = "getMoviesWithMostRecentComments"
       /\ "movieId" \in DOMAIN s.in.q
       /\ s.in.q.movieId.kind = "string"
       /\ s.in.q.movieId.v # ""
       /\ ~ObjectIdIsValid(s.in.q.movieId.v)

\* the body of a batch delete has no filter, or the filter {}
EmptyFilter(body) == "filter" \notin DOMAIN body \/ body.filter = EmptyObj

\* the filter of a batch body lists identifiers, one of them malformed
BadListed(body) ==
    /\ "filter" \in DOMAIN body
    /\ "_id" \in DOMAIN body.filter
    /\ \E i \in DOMAIN body.filter._id.in : ~ObjectIdIsValid(body.filter._id.in[i])

\* none of plot, fullplot, directors, writers, cast carries text
NoFieldSupplied(q) == \A f \in SearchFields : f \notin DOMAIN q \/ q[f] = ""

\* the shape of a response body (utils/errorHandler.ts, SuccessResponse and
\* ErrorResponse as serialised)
Envelope(body) ==
    /\ {"success", "message", "timestamp"} \subseteq DOMAIN body
    /\ body.success \in BOOLEAN
    /\ body.success => "data" \in DOMAIN body /\ "error" \notin DOMAIN body
    /\ ~body.success =>
          /\ "error" \in DOMAIN body /\ "data" \notin DOMAIN body
          /\ {"message", "code"} \subseteq DOMAIN body.error
          /\ DOMAIN body.error \subseteq {"message", "code", "details"}

C2_EmptyFilterRefused ==
    [][\A r \in DOMAIN req :
          (req'[r].h = "deleteMoviesBatch" /\ EmptyFilter(req'[r].in.body)) =>
              /\ Failure(req'[r], 400, "MISSING_FILTER")
              /\ req'[r].ops = <<>>
              /\ movies' = movies]_vars

\* a batch delete with the filter {} has been refused while the collection
\* held documents, and they are still there
C2_Witness ==
    \E r \in DOMAIN req :
        /\ req[r].h = "deleteMoviesBatch"
        /\ req[r].in.body = [filter |-> EmptyObj]
        /\ Failure(req[r], 400, "MISSING_FILTER")
        /\ Cardinality(movies) = 2

\* C3: whatever the number of connectToDatabase callers and however they
\* interleave, _connectToDatabase is entered and MongoClient.connect() called
\* at most once; every caller that is waiting waits on that one attempt, and
\* every caller that got a Db got the one Db object the module holds.
C3_ConnectOnce ==
    /\ Len(promises) <= 1
    /\ connectCalls <= 1
    /\ \A c \in DOMAIN callers :
          /\ callers[c].pc = "await" => callers[c].promise = connectP /\ connectP = 1
          /\ callers[c].pc = "resolved" =>
                /\ database # 0
                /\ callers[c].result = database

\* three callers, one that started the attempt, one that arrived while it was
\* in flight and one that arrived after it succeeded, all hold the same Db
C3_Witness ==
    \E a, b, c \in DOMAIN callers :
        /\ callers[a].pc = "resolved" /\ callers[a].arrived = "first"
        /\ callers[b].pc = "resolved" /\ callers[b].arrived = "inflight"
        /\ callers[c].pc = "resolved" /\ callers[c].arrived = "settled"
        /\ callers[a].result = callers[b].result
        /\ callers[b].result = callers[c].result
        /\ connectCalls = 1

GetCompletes(r) ==
    /\ req[r].h = "getMovieById" /\ req[r].pc = "findOne"
    /\ req'[r].pc = "done" /\ req'[r].okOps = req[r].okOps + 1

DeleteCompletes(r) ==
    /\ req[r].h = "deleteMovie" /\ req[r].pc = "deleteOne"
    /\ req'[r].pc = "done" /\ req'[r].okOps = req[r].okOps + 1

\* the response carries a document with this id, equal to `body` on its fields
ReturnsCreated(resp, id, body) ==
    /\ resp.status = 200 /\ resp.body.success
    /\ resp.body.data # Null
    /\ resp.body.data._id = id
    /\ \A k \in DOMAIN body : k \in DOMAIN resp.body.data /\ resp.body.data[k] = body[k]

C5_BadIdFailsBatch ==
    [][\A r \in DOMAIN req :
          (/\ req'[r].h \in {"updateMoviesBatch", "deleteMoviesBatch"}
           /\ BadListed(req'[r].in.body)) =>
              /\ Answered(req'[r])
              /\ req'[r].resp[1].body.success = FALSE
              /\ req'[r].ops = <<>>
              /\ movies' = movies]_vars

\* a batch update listing "id1" and then "zz" has failed, and the document
\* "id1", which the update would have changed, is unchanged
C5_Witness ==
    \E r \in DOMAIN req :
        /\ req[r].h = "updateMoviesBatch"
        /\ req[r].in.body = [filter |-> [_id |-> [in |-> <<"id1", "zz">>]], update |-> Patch]
        /\ Answered(req[r])
        /\ req[r].ops = <<>>
        /\ \E d \in movies : d._id = ObjectId("id1") /\ d.title # Patch.title

\* the request carries one of the input errors the handlers validate
InputError(s) ==
    \/ CarriesMalformedId(s)
    \/ s.h \in {"updateMoviesBatch", "deleteMoviesBatch"} /\ BadListed(s.in.body)
    \/ s.h = "createMovie" /\ MissingFields(s.in.body, {"title"}) # {}
    \/ /\ s.h = "createMoviesBatch"
       /\ \E i \in DOMAIN s.in.body.items : MissingFields(s.in.body.items[i], {"title"}) # {}
    \/ s.h = "updateMovie" /\ s.in.body = EmptyObj
    \/ /\ s.h = "updateMoviesBatch"
       /\ "update" \in DOMAIN s.in.body /\ s.in.body.update = EmptyObj
    \/ s.h = "deleteMoviesBatch" /\ EmptyFilter(s.in.body)
    \/ /\ s.h = "searchMovies"
       /\ (SearchOperator(s.in.q) \notin ValidOperators \/ NoFieldSupplied(s.in.q))

\* C6, as stated: every request with an input validation error (a malformed
\* identifier, also inside a batch filter's _id.$in; a missing title in
\* createMovie or in an element of createMoviesBatch; an empty update; an empty
\* delete filter; an invalid searchOperator; no search parameter) is answered
\* with a 400 failure envelope before any store operation is issued.
C6_InputErrorsAre400 ==
    \A r \in Active :
        InputError(req[r]) =>
            /\ Answered(req[r])
            /\ req[r].resp[1].status = 400
            /\ req[r].resp[1].body.success = FALSE
            /\ req[r].ops = <<>>

\* a batch create whose second element has no title has been answered 500
\* INTERNAL_ERROR
C6_Divergence ==
    \E r \in DOMAIN req :
        /\ req[r].h = "createMoviesBatch"
        /\ req[r].in.body.items = <<ValidMovie, [year |-> 1994]>>
        /\ Failure(req[r], 500, "INTERNAL_ERROR")
        /\ req[r].ops = <<>>

StoreOpSucceeds(r) ==
    /\ req[r].h \in TakesId
    /\ req[r].pc \notin {"idle", "done"}
    /\ req[r].okOps = 0 /\ req'[r].okOps = 1

\* C7: for getMovieById, updateMovie, deleteMovie and findAndDeleteMovie, a
\* store operation that succeeds for a well-formed id matching no document is
\* answered 404 MOVIE_NOT_FOUND; and a 404 is only ever sent by a request
\* whose input passed validation, after its store operation has succeeded.
C7_NotFoundAfterStore ==
    [][\A r \in DOMAIN req :
          /\ (StoreOpSucceeds(r) /\ FindById(ObjectId(req[r].in.id)) = Null)
                => Failure(req'[r], 404, "MOVIE_NOT_FOUND")
          /\ (/\ req'[r].h \in TakesId
              /\ req'[r].resp # <<>>
              /\ req'[r].resp[1].status = 404)
                => /\ Failure(req'[r], 404, "MOVIE_NOT_FOUND")
                   /\ ObjectIdIsValid(req'[r].in.id)
                   /\ req'[r].h = "updateMovie" => req'[r].in.body # EmptyObj
                   /\ Len(req'[r].ops) = 1 /\ req'[r].okOps = 1
                   /\ req[r].pc = req'[r].ops[1]]_vars

\* an updateMovie for an id whose movie was deleted has been answered 404 after
\* its updateOne
C7_Witness ==
    \E r \in DOMAIN req :
        /\ req[r].h = "updateMovie"
        /\ req[r].in.id \in gone
        /\ Failure(req[r], 404, "MOVIE_NOT_FOUND")
        /\ req[r].ops = <<"updateOne">> /\ req[r].okOps = 1

\* C8, as amended: searchMovies with none of the five text fields supplied
\* never runs the aggregation and always answers 400, whatever limit and skip
\* are: with code NO_SEARCH_PARAMETERS when searchOperator is absent or one of
\* must, should, mustNot, filter, and with code INVALID_SEARCH_OPERATOR when it
\* is anything else.
C8_NoFieldsRefused ==
    \A r \in Active :
        (req[r].h = "searchMovies" /\ NoFieldSupplied(req[r].in.q)) =>
            /\ Failure(req[r], 400,
                       IF SearchOperator(req[r].in.q) \in ValidOperators
                       THEN "NO_SEARCH_PARAMETERS" ELSE "INVALID_SEARCH_OPERATOR")
            /\ req[r].ops = <<>>

\* a search with searchOperator=should, limit=0, skip=-1 and no text field has
\* been answered 400 NO_SEARCH_PARAMETERS
C8_Witness ==
    \E r \in DOMAIN req :
        /\ req[r].h = "searchMovies"
        /\ req[r].in.q = [searchOperator |-> "should", limit |-> <<"0">>, skip |-> <<"-", "1">>]
        /\ Failure(req[r], 400, "NO_SEARCH_PARAMETERS")
        /\ req[r].ops = <<>>

\* C8 as stated: the code is NO_SEARCH_PARAMETERS whatever searchOperator is.
C8_AsStated ==
    \A r \in Active :
        (req[r].h = "searchMovies" /\ NoFieldSupplied(req[r].in.q)) =>
            /\ Failure(req[r], 400, "NO_SEARCH_PARAMETERS")
            /\ req[r].ops = <<>>

\* C9: every request of the movie routes is answered at most once, and every
\* body sent, by a handler or by errorHandler for an error a handler threw, is
\* an envelope: success=true with data and without error, or success=false
\* with error {message, code, details?} and without data; a thrown error is
\* always answered by a failure envelope.
C9_Envelope ==
    \A r \in DOMAIN req :
        /\ Len(req[r].resp) <= 1
        /\ req[r].pc = "done" => Len(req[r].resp) = 1
        /\ \A i \in DOMAIN req[r].resp : Envelope(req[r].resp[i].body)
        /\ req[r].thrown # <<>> => Answered(req[r]) /\ ~req[r].resp[1].body.success

\* a handler threw a plain Error and the client got a failure envelope
C9_Witness ==
    \E r \in DOMAIN req :
        /\ req[r].thrown # <<>>
        /\ req[r].thrown[1].name = "Error"
        /\ Answered(req[r])
        /\ Envelope(req[r].resp[1].body)
        /\ ~req[r].resp[1].body.success

\* C10, as amended: errorHandler answers a thrown store error with code 11000
\* by 409, with code 121 by 400, and with any other code by 500 "Database
\* error" whose error.details is that code; it answers an error that matches
\* no mapping by 500 INTERNAL_ERROR whose message is the error's own message
\* ("Internal server error" only when that message is empty) and which has no
\* error.details.
C10_ErrorMapping ==
    \A r \in DOMAIN req :
        req[r].thrown # <<>> =>
            LET err == req[r].thrown[1]
                resp == req[r].resp[1] IN
            /\ Answered(req[r])
            /\ err.mongo /\ err.code = DuplicateKeyCode => resp.status = 409
            /\ err.mongo /\ err.code = DocumentValidationCode => resp.status = 400
            /\ err.mongo /\ err.code \notin {DuplicateKeyCode, DocumentValidationCode} =>
                  /\ resp.status = 500
                  /\ resp.body.error.message = "Database error"
                  /\ resp.body.error.details = Some(err.code)
            /\ ~err.mongo /\ err.name # "ValidationError" =>
                  /\ resp.status = 500
                  /\ resp.body.error.code = "INTERNAL_ERROR"
                  /\ resp.body.error.message =
                        IF err.message = "" THEN "Internal server error" ELSE err.message
                  /\ "details" \notin DOMAIN resp.body.error

\* createMovie threw "not acknowledged", a plain Error, and the response
\* carries that text as its message
C10_Witness ==
    \E r \in DOMAIN req :
        /\ req[r].h = "createMovie"
        /\ req[r].thrown # <<>>
        /\ req[r].thrown[1].message = "Movie insertion was not acknowledged by the database"
        /\ req[r].resp[1].status = 500
        /\ req[r].resp[1].body.error.message = req[r].thrown[1].message

\* C10 as stated: an error matching no mapping gets a generic message, and its
\* own text appears only in error.details.
C10_AsStated ==
    \A r \in DOMAIN req :
        (/\ req[r].thrown # <<>>
         /\ ~req[r].thrown[1].mongo
         /\ req[r].thrown[1].name # "ValidationError") =>
            /\ req[r].resp[1].status = 500
            /\ req[r].resp[1].body.error.message # req[r].thrown[1].message
            /\ "details" \in DOMAIN req[r].resp[1].body.error
            /\ req[r].resp[1].body.error.details = Some(req[r].thrown[1].message)

(***************************************************************************)
(* Vector search                                                           *)
(***************************************************************************)
VectorRequests == {r \in DOMAIN req : req[r].h = "vectorSearchMovies"}

\* the embedding provider has answered this request with a failure: a
\* status 401, another status outside 2xx, or no answer at all
ProviderFailed(s) == s.embed \in {"http401", "http500", "transport"}

\* C11: when the embedding provider answers vectorSearchMovies with HTTP 401
\* the response is 401 with code VOYAGE_AUTH_ERROR; when it answers with any
\* other status outside 2xx, or the call fails in transport, the response is
\* 503 with code VOYAGE_API_ERROR; in both cases no store query is issued.
C11_ProviderFailureStatus ==
    \A r \in VectorRequests :
       LET s == req[r] IN
       ProviderFailed(s) =>
          /\ s.ops = <<>>
          /\ IF s.embed = "http401"
             THEN Failure(s, 401, "VOYAGE_AUTH_ERROR")
             ELSE Failure(s, 503, "VOYAGE_API_ERROR")

\* the provider answered 401 and the client received 500 VECTOR_SEARCH_ERROR
C11_Divergence ==
    \E r \in VectorRequests :
       /\ req[r].embed = "http401"
       /\ Failure(req[r], 500, "VECTOR_SEARCH_ERROR")
       /\ req[r].ops = <<>>

\* the identifiers of a list of $vectorSearch results
HitIds(vec) == {vec[i]._id : i \in DOMAIN vec}

\* the rows of a 200 response, in the order sent
Rows(s) == s.resp[1].body.data

\* C12: the work of vectorSearchMovies runs in a fixed order: the embedding
\* call completes before the aggregate on embedded_movies is issued, which
\* completes before the aggregate on movies is issued, and that one matches
\* exactly the identifiers the first returned; the response lists each fetched
\* movie with the phase-1 score of its identifier, sorted by score descending,
\* and has at most effective-limit entries.
C12_VectorSearchOrder ==
    \A r \in VectorRequests :
       LET s == req[r] IN
       /\ s.pc = "embed" => s.embed = "" /\ s.ops = <<>>
       /\ s.ops # <<>> => s.embed = "ok" /\ s.calls[1].coll = "embedded_movies"
       /\ s.pc = "vectorSearch" => Len(s.ops) = 1 /\ s.okOps = 0
       /\ Len(s.ops) > 1 =>
             /\ Len(s.ops) = 2 /\ s.okOps >= 1
             /\ s.calls[2].coll = "movies"
             /\ s.calls[2].ids = HitIds(s.vec)
       /\ (Answered(s) /\ s.resp[1].status = 200 /\ Len(s.ops) = 2) =>
             LET rows == Rows(s) IN
             /\ s.okOps = 2
             /\ \A d \in movies :
                   d._id \in HitIds(s.vec) =>
                      \E i \in DOMAIN rows : rows[i]._id = OidToString(d._id)
             /\ \A i \in DOMAIN rows :
                   \E k \in DOMAIN s.vec :
                      /\ OidToString(s.vec[k]._id) = rows[i]._id
                      /\ s.vec[k].score = rows[i].score
             /\ \A i, j \in DOMAIN rows : i < j => rows[i].score >= rows[j].score
             /\ Len(rows) <= s.calls[1].limit

\* two movies came back from the second phase in the store's order and were
\* sent best score first
C12_Witness ==
    \E r \in VectorRequests :
       /\ Answered(req[r]) /\ req[r].resp[1].status = 200
       /\ Len(Rows(req[r])) = 2
       /\ Rows(req[r])[1]._id = IdOf(2)
       /\ Rows(req[r])[1].score > Rows(req[r])[2].score

\* a sequence of characters with nothing but white space in it
Blank(chars) == \A i \in DOMAIN chars : chars[i] = " "

\* the q of the request is absent, not a string, or blank
QueryTextMissing(s) ==
    \/ "q" \notin DOMAIN s.in.q
    \/ s.in.q.q.kind # "string"
    \/ Blank(s.in.q.q.v)

\* VOYAGE_API_KEY is unset or blank
KeyMissing == voyageKey = Undefined \/ Blank(voyageKey[1])

\* C13: vectorSearchMovies answers 400 MISSING_QUERY_PARAMETER when q is
\* absent, not a string or blank, and 400 SERVICE_UNAVAILABLE when q is valid
\* but VOYAGE_API_KEY is unset or blank; the query check comes first, and in
\* both cases neither the embedding provider nor the store is contacted.
C13_VectorPreconditions ==
    \A r \in VectorRequests :
       LET s == req[r] IN
       /\ QueryTextMissing(s) =>
             /\ Failure(s, 400, "MISSING_QUERY_PARAMETER")
             /\ s.provider = 0 /\ s.ops = <<>>
       /\ (~QueryTextMissing(s) /\ KeyMissing) =>
             /\ Failure(s, 400, "SERVICE_UNAVAILABLE")
             /\ s.provider = 0 /\ s.ops = <<>>

\* a valid query met a key made of white space
C13_Witness ==
    \E r \in VectorRequests :
       /\ ~QueryTextMissing(req[r])
       /\ voyageKey # Undefined /\ voyageKey[1] # <<>> /\ Blank(voyageKey[1])
       /\ Failure(req[r], 400, "SERVICE_UNAVAILABLE")
       /\ req[r].provider = 0 /\ req[r].ops = <<>>

(***************************************************************************)
(* Pagination                                                              *)
(***************************************************************************)
\* the handlers that take a `limit`, and the ceiling of each
Limited ==
    {"getAllMovies", "searchMovies", "getDirectorsWithMostMovies",
     "vectorSearchMovies", "getMoviesWithMostRecentComments"}

Ceiling(h) ==
    IF h \in {"vectorSearchMovies", "getMoviesWithMostRecentComments"} THEN 50 ELSE 100

\* the requests that have passed a limit to the store
Paged == {r \in Active : req[r].h \in Limited /\ req[r].calls # <<>>}

\* the limit the request passed to the store
EffectiveLimit(s) == s.calls[1].limit

\* the request carries this integer, in decimal, as its raw limit
LimitIs(s, n) == "limit" \in DOMAIN s.in.q /\ s.in.q.limit = IntChars(n)

\* C14: every numeric limit outside [1, ceiling], zero and the negative
\* numbers included, is replaced by the nearest in-range bound: 1 when it is
\* below, the ceiling when it is above (ceiling 100 for getAllMovies,
\* searchMovies and getDirectorsWithMostMovies, 50 for vectorSearchMovies and
\* getMoviesWithMostRecentComments).
C14_NearestBound ==
    \A r \in Paged :
       \A n \in RawNumbers :
          LimitIs(req[r], n) =>
             /\ n < 1 => EffectiveLimit(req[r]) = 1
             /\ n > Ceiling(req[r].h) => EffectiveLimit(req[r]) = Ceiling(req[r].h)

\* limit=0 was sent and the store was asked for more than one document
C14_Divergence ==
    \E r \in Paged :
       /\ LimitIs(req[r], 0)
       /\ EffectiveLimit(req[r]) > 1

\* the default limit each handler documents
DocumentedDefault(h) ==
    IF h \in {"vectorSearchMovies", "getMoviesWithMostRecentComments"} THEN 10 ELSE 20

\* the raw limit of the request is text that does not start with a number
LimitNotNumeric(s) == "limit" \in DOMAIN s.in.q /\ s.in.q.limit \in NonNumeric

\* C15: a non-numeric limit yields the same effective limit as an absent
\* limit, the documented default (20 for the list, search and directors
\* endpoints, 10 for the comments report and for vectorSearchMovies), and
\* never an error.
C15_NonNumericIsDefault ==
    \A r \in Active :
       LET s == req[r] IN
       (s.h \in Limited /\ ("limit" \notin DOMAIN s.in.q \/ LimitNotNumeric(s))) =>
          (s.calls # <<>> => EffectiveLimit(s) = DocumentedDefault(s.h))

\* vectorSearchMovies passed 20 to the store for a limit that is not a number
C15_Divergence ==
    \E r \in VectorRequests :
       /\ LimitNotNumeric(req[r])
       /\ req[r].calls # <<>>
       /\ EffectiveLimit(req[r]) = 20

\* the limit and skip the store receives are those of the response's paging
SkipPassed(s) == s.calls[1].skip

Selected(d, filter) ==
    \A k \in DOMAIN filter :
       IF k = "_id"
       THEN \E i \in DOMAIN filter._id.in : filter._id.in[i] = OidToString(d._id)
       ELSE k \in DOMAIN d /\ d[k] = filter[k]

\* some field of the patch is not yet what the document stores
Differs(d, patch) == \E k \in DOMAIN patch : k \notin DOMAIN d \/ d[k] # patch[k]

\* the stored movie with this identifier, if there is one
Stored(id) == {d \in movies : OidToString(d._id) = id}

ReadsBack == {"createMovie", "updateMovie"}

\* the requests of every handler but vectorSearchMovies
PlainRequests == {r \in Active : req[r].h # "vectorSearchMovies"}

\* C18: every handler other than vectorSearchMovies issues exactly one store
\* operation per request once validation has passed, except createMovie and
\* updateMovie, which after a successful write issue one more, the findOne
\* that reads the document back.
C18_StoreOperations ==
    \A r \in PlainRequests :
       LET s == req[r] IN
       /\ ~Answered(s) => Len(s.ops) >= 1
       /\ (Answered(s) /\ s.ops = <<>>) => s.resp[1].status >= 400
       /\ s.h \notin ReadsBack => Len(s.ops) <= 1
       /\ s.h \in ReadsBack =>
             /\ Len(s.ops) <= 2
             /\ Len(s.ops) = 2 => s.ops[2] = "findOne" /\ s.okOps >= 1
             /\ (Answered(s) /\ s.resp[1].status \in {200, 201}) => Len(s.ops) = 2

\* createMovie has answered 201 after an insertOne and a findOne
C18_Witness ==
    \E r \in PlainRequests :
       /\ req[r].h = "createMovie" /\ Answered(req[r])
       /\ req[r].resp[1].status = 201
       /\ req[r].ops = <<"insertOne", "findOne">>

\* C18 as stated: one store operation at most, createMovie and updateMovie
\* included
C18_AsStated == \A r \in PlainRequests : Len(req[r].ops) <= 1

(***************************************************************************)
(* Sort order and search operator                                          *)
(***************************************************************************)
\* title a does not come after title b
TitleNotAfter(a, b) == a = b \/ (a = "X" /\ b = "Y")

\* the request names a sortOrder other than "desc", or none
NotDescending(s) == "sortOrder" \notin DOMAIN s.in.q \/ s.in.q.sortOrder # "desc"

\* the request names a searchOperator outside the four the search accepts
UnknownOperator(s) ==
    /\ "searchOperator" \in DOMAIN s.in.q
    /\ s.in.q.searchOperator \notin {"must", "should", "mustNot", "filter"}

\* C19: getAllMovies sorts ascending for any sortOrder other than "desc" and
\* never answers an error because of it; searchMovies answers 400
\* INVALID_SEARCH_OPERATOR, without running the aggregation, for a
\* searchOperator outside {must, should, mustNot, filter}.
C19_SortAndOperator ==
    \A r \in Active :
       LET s == req[r] IN
       /\ (s.h = "getAllMovies" /\ NotDescending(s)) =>
             /\ s.ops = <<"find">> /\ s.calls[1].sort = 1
             /\ Answered(s) =>
                   IF s.okOps = 1
                   THEN /\ s.resp[1].status = 200
                        /\ \A i, j \in DOMAIN Rows(s) :
                              i < j => TitleNotAfter(Rows(s)[i].title, Rows(s)[j].title)
                   ELSE s.thrown # <<>> /\ s.thrown[1].mongo
       /\ (s.h = "searchMovies" /\ UnknownOperator(s)) =>
             /\ Failure(s, 400, "INVALID_SEARCH_OPERATOR")
             /\ s.ops = <<>>

\* sortOrder=sideways was answered with the two movies by ascending title,
\* the reverse of the order the store keeps them in
C19_Witness ==
    \E r \in Active :
       /\ req[r].h = "getAllMovies" /\ Answered(req[r])
       /\ "sortOrder" \in DOMAIN req[r].in.q /\ req[r].in.q.sortOrder = "sideways"
       /\ req[r].resp[1].status = 200
       /\ Len(Rows(req[r])) = 2
       /\ Rows(req[r])[1]._id = IdOf(2) /\ Rows(req[r])[1].title = "X"
       /\ Rows(req[r])[2]._id = IdOf(1) /\ Rows(req[r])[2].title = "Y"

(***************************************************************************)
(* Comments report                                                         *)
(***************************************************************************)
\* the comments written on the movie with this identifier
CommentsOn(id) == {c \in Comments : OidToString(c.movie_id) = id}

\* C20: in the comments report a movie with no comments never appears; for
\* each movie that appears, recentComments holds its min(limit, total) most
\* recent comments in descending date order, and totalComments is the number
\* of all its comments.
C20_CommentsReport ==
    \A r \in Active :
       LET s == req[r] IN
       (s.h = "getMoviesWithMostRecentComments" /\ Answered(s) /\ s.resp[1].status = 200) =>
          \A i \in DOMAIN Rows(s) :
             LET cs == CommentsOn(Rows(s)[i]._id)
                 rc == Rows(s)[i].recentComments
                 total == Cardinality(cs) IN
             /\ cs # {}
             /\ Rows(s)[i].totalComments = total
             /\ Len(rc) = IF EffectiveLimit(s) < total THEN EffectiveLimit(s) ELSE total
             /\ \A j, k \in DOMAIN rc : j < k => rc[j].date >= rc[k].date /\ rc[j]._id # rc[k]._id
             /\ \A j \in DOMAIN rc : \E c \in cs : c._id = rc[j]._id /\ c.date = rc[j].date
             /\ \A c \in cs :
                   (\A j \in DOMAIN rc : rc[j]._id # c._id) =>
                      \A j \in DOMAIN rc : c.date <= rc[j].date

\* limit=2 on a movie with three comments: the two newest are listed, newest
\* first, and all three are counted
C20_Witness ==
    \E r \in Active :
       /\ req[r].h = "getMoviesWithMostRecentComments" /\ Answered(req[r])
       /\ req[r].resp[1].status = 200
       /\ LimitIs(req[r], 2)
       /\ \E i \in DOMAIN Rows(req[r]) :
             /\ Rows(req[r])[i].totalComments = 3
             /\ Len(Rows(req[r])[i].recentComments) = 2
             /\ Rows(req[r])[i].recentComments[1].date > Rows(req[r])[i].recentComments[2].date

(***************************************************************************)
(* Comments report: the cap on the movies returned                         *)
(***************************************************************************)
CommentReports == {r \in Active : req[r].h = "getMoviesWithMostRecentComments"}

\* the pipeline sent to the store selects one movie by its identifier
Narrowed(s) == s.calls[1].id # Undefined

\* C21: in the comments report the number of movies returned is capped at 50
\* exactly when the pipeline is narrowed to a single movie identifier, and at
\* 20 in every other case, whatever the form of the movieId parameter
\* (absent, a string, a repeated parameter parsed as an array).
C21_MovieCap ==
    \A r \in CommentReports :
       req[r].calls # <<>> =>
          req[r].calls[1].cap = IF Narrowed(req[r]) THEN 50 ELSE 20

\* a repeated movieId: the pipeline selects no movie, carries the cap 50, and
\* the report lists a movie the parameter did not name
C21_Divergence ==
    \E r \in CommentReports :
       /\ "movieId" \in DOMAIN req[r].in.q /\ req[r].in.q.movieId.kind = "array"
       /\ req[r].in.q.movieId.items = <<"id2", "id2">>
       /\ req[r].calls # <<>> /\ ~Narrowed(req[r])
       /\ req[r].calls[1].cap = 50
       /\ Answered(req[r]) /\ req[r].resp[1].status = 200
       /\ \E i \in DOMAIN Rows(req[r]) : Rows(req[r])[i]._id = IdOf(1)

(***************************************************************************)
(* Year report                                                             *)
(***************************************************************************)
YearReports == {r \in Active : req[r].h = "getMoviesByYearWithStats"}

\* the stored movies of a year, and those of them that carry a rating
OfYear(y) == {d \in movies : "year" \in DOMAIN d /\ d.year = y}
RatedOfYear(y) == {d \in OfYear(y) : "imdb" \in DOMAIN d /\ "rating" \in DOMAIN d.imdb}

\* C22: the year report returns one group per year among the movies whose
\* year is numeric and within [1800, 2030], ordered by year descending, with
\* movieCount counting every movie of the year and the average, highest and
\* lowest rating computed over its ratings; two movies created through the
\* API with year 2023 and ratings 8.0 and 9.0 yield the group year 2023,
\* movieCount 2, averageRating 8.5, highestRating 9.0, lowestRating 8.0.
C22_YearStats ==
    \A r \in YearReports :
       (Answered(req[r]) /\ req[r].resp[1].status = 200) =>
          LET rows == Rows(req[r])
              years == {d.year : d \in {m \in movies : "year" \in DOMAIN m
                                           /\ m.year >= 1800 /\ m.year <= 2030}} IN
          /\ {rows[i].year : i \in DOMAIN rows} = years
          /\ \A i, j \in DOMAIN rows : i < j => rows[i].year > rows[j].year
          /\ \A i \in DOMAIN rows :
                LET rated == RatedOfYear(rows[i].year)
                    ratings == {d.imdb.rating : d \in rated} IN
                /\ rows[i].movieCount = Cardinality(OfYear(rows[i].year))
                /\ rated # {} =>
                      /\ rows[i].averageRating =
                            Num(RoundedQuotient(SumRatings(rated), Cardinality(rated)))
                      /\ rows[i].highestRating \in {Num(x) : x \in ratings}
                      /\ \A x \in ratings :
                            /\ x <= rows[i].highestRating.num
                            /\ x >= rows[i].lowestRating.num
                      /\ rows[i].lowestRating \in {Num(x) : x \in ratings}

\* two movies of 2023 created with ratings 8.0 and 9.0, and the report
\* answers the group of 2023 with movieCount 2 and no rating at all
C22_Divergence ==
    \E r \in YearReports :
       /\ Answered(req[r]) /\ req[r].resp[1].status = 200
       /\ {d.imdb.rating : d \in RatedOfYear(2023)} = {800, 900}
       /\ Cardinality(OfYear(2023)) = 2
       /\ \E i \in DOMAIN Rows(req[r]) :
             /\ Rows(req[r])[i].year = 2023
             /\ Rows(req[r])[i].movieCount = 2
             /\ Rows(req[r])[i].averageRating = Null
             /\ Rows(req[r])[i].highestRating = Null
             /\ Rows(req[r])[i].lowestRating = Null

(***************************************************************************)
(* GET /api/movies/genres                                                  *)
(***************************************************************************)
\* the path, after /api/movies/, of the GET request a slot holds
PathOf(s) ==
    IF s.h = "getMovieById" THEN s.in.id
    ELSE IF s.h = "getAllMovies" THEN ""
    ELSE IF s.h = "searchMovies" THEN "search"
    ELSE IF s.h = "vectorSearchMovies" THEN "vector-search"
    ELSE IF s.h = "getMoviesWithMostRecentComments" THEN "aggregations/reportingByComments"
    ELSE IF s.h = "getMoviesByYearWithStats" THEN "aggregations/reportingByYear"
    ELSE "aggregations/reportingByDirectors"

GenresRequests == {r \in Active : PathOf(req[r]) = "genres"}

\* C23: GET /api/movies/genres is not dispatched to the get-by-id handler and
\* responds 200 with a success envelope whose data is the non-empty list of
\* the distinct genre strings in alphabetical order.
C23_GenresList ==
    \A r \in GenresRequests :
       /\ req[r].h # "getMovieById"
       /\ Answered(req[r]) =>
             /\ req[r].resp[1].status = 200
             /\ req[r].resp[1].body.success = TRUE
             /\ Len(req[r].resp[1].body.data) > 0

\* GET /api/movies/genres was handled by getMovieById with id "genres" and
\* answered 400 INVALID_OBJECT_ID without any store operation
C23_Divergence ==
    \E r \in GenresRequests :
       /\ RouteGet("genres") = "getMovieById"
       /\ req[r].h = "getMovieById" /\ req[r].in.id = "genres"
       /\ Failure(req[r], 400, "INVALID_OBJECT_ID")
       /\ req[r].ops = <<>>

(***************************************************************************)
(* Requests in flight together. Node runs each handler segment (the code   *)
(* between two awaits) to its end, and the segments of different requests  *)
(* interleave in any order; the store applies each operation atomically.   *)
(* SpecRace takes NRequests requests, one per slot, over a store that      *)
(* holds the movie IdOf(1): writers (createMovie, updateMovie) and         *)
(* deleters (deleteMovie, findAndDeleteMovie).                             *)
(***************************************************************************)
NRequests == 3

RaceDoc == NewDoc(ObjectId(IdOf(1)), ValidMovie)

\* the movies the deleters name: the stored one and the first one created
RaceIds == {IdOf(1), IdOf(2)}

InitRace ==
    /\ uri = "set"
    /\ connectP = 1
    /\ promises = <<[state |-> "fulfilled", value |-> 1, error |-> ""]>>
    /\ database = 1
    /\ client = 1
    /\ connectCalls = 1
    /\ callers = <<>>
    /\ movies = {RaceDoc}
    /\ usedIds = {IdOf(1)}
    /\ req = [r \in 1..NRequests |-> IdleSlot]
    /\ voyageKey = Undefined
    /\ created = <<>>
    /\ modified = {}
    /\ gone = {}
    /\ server = Serving
    /\ indexes = {IdIndex, TextIndex("text_search_index")}

NextRace ==
    \/ \E r \in DOMAIN req : createMovie(r, ValidMovie) /\ UNCHANGED envVars
    \/ \E r \in DOMAIN req : createMovie_insertOne(r) /\ UNCHANGED envVars
    \/ \E r \in DOMAIN req : createMovie_findOne(r) /\ UNCHANGED envVars
    \/ \E r \in DOMAIN req : updateMovie(r, IdOf(1), Patch) /\ UNCHANGED envVars
    \/ \E r \in DOMAIN req : updateMovie_updateOne(r) /\ UNCHANGED envVars
    \/ \E r \in DOMAIN req : updateMovie_findOne(r) /\ UNCHANGED envVars
    \/ \E r \in DOMAIN req, id \in RaceIds : deleteMovie(r, id) /\ UNCHANGED envVars
    \/ \E r \in DOMAIN req : deleteMovie_deleteOne(r) /\ UNCHANGED envVars
    \/ \E r \in DOMAIN req, id \in RaceIds :
          findAndDeleteMovie(r, id) /\ UNCHANGED envVars
    \/ \E r \in DOMAIN req : findAndDeleteMovie_findOneAndDelete(r) /\ UNCHANGED envVars

SpecRace == InitRace /\ [][NextRace]_vars

(***************************************************************************)
(* app.ts: startServer(), with config/database.ts: verifyRequirements(),   *)
(* verifyMoviesCollection() and createTextSearchIndex(). callers[1] is     *)
(* startServer's own call of connectToDatabase, callers[2] the call made   *)
(* by verifyRequirements. Once the app listens it takes GET requests.      *)
(***************************************************************************)
ExitFailure == 1

\* catch (error) { console.error(...); process.exit(1); }
Exit(s) == [s EXCEPT !.pc = "exited", !.exit = <<ExitFailure>>]

\* the awaits of startServer are over: app.listen(PORT, ...)
Listen(s) ==
    [s EXCEPT !.pc = "listening", !.listening = TRUE,
              !.did = Append(@, "verifyRequirements")]

\* existingIndexes.some((index) => index.key && index.key._fts === "text")
textIndexExists == \E index \in indexes : index.fts

\* startServer(), up to `await connectToDatabase()`
startServer ==
    /\ server.pc = "idle"
    /\ connectToDatabase(1)
    /\ server' = [server EXCEPT !.pc = "connectToDatabase"]
    /\ UNCHANGED <<movies, usedIds, req, voyageKey, histVars, indexes>>

\* startServer after connectToDatabase: the catch block, or
\* verifyRequirements() up to its `await connectToDatabase()`
startServer_connectToDatabase ==
    /\ server.pc = "connectToDatabase"
    /\ callers[1].pc \in {"resolved", "rejected"}
    /\ IF callers[1].pc = "rejected"
       THEN /\ server' = Exit(server)
            /\ UNCHANGED connVars
       ELSE /\ connectToDatabase(2)
            /\ server' = [server EXCEPT !.pc = "verifyRequirements",
                                        !.did = Append(@, "connectToDatabase")]
    /\ UNCHANGED <<movies, usedIds, req, voyageKey, histVars, indexes>>

\* verifyRequirements after connectToDatabase: its catch block rethrows to
\* startServer's, or verifyMoviesCollection(db) up to
\* `await moviesCollection.estimatedDocumentCount()`
verifyRequirements_connectToDatabase ==
    /\ server.pc = "verifyRequirements"
    /\ callers[2].pc \in {"resolved", "rejected"}
    /\ server' = IF callers[2].pc = "rejected" THEN Exit(server)
                 ELSE [server EXCEPT !.pc = "estimatedDocumentCount"]
    /\ UNCHANGED <<connVars, movies, usedIds, req, voyageKey, histVars, indexes>>

\* verifyMoviesCollection after estimatedDocumentCount, up to the
\* `await moviesCollection.listIndexes().toArray()` of createTextSearchIndex
verifyMoviesCollection_estimatedDocumentCount ==
    /\ server.pc = "estimatedDocumentCount"
    /\ \E f \in ReadOutcomes :
         server' = IF f # "ok" THEN Exit(server)
                   ELSE [server EXCEPT
                           !.pc = "listIndexes",
                           !.warned = IF Cardinality(movies) = 0
                                      THEN @ \cup {"Movies collection is empty."}
                                      ELSE @]
    /\ UNCHANGED <<connVars, movies, usedIds, req, voyageKey, histVars, indexes>>

\* the catch block passing the error on
IndexWarning_rethrows(s) == Exit(s)

\* createTextSearchIndex's catch block: two warnings and a normal return
IndexWarning(s) == [s EXCEPT !.warned = @ \cup {"Could not create text search index"}]

\* createTextSearchIndex after listIndexes
createTextSearchIndex_listIndexes ==
    /\ server.pc = "listIndexes"
    /\ \E f \in ReadOutcomes :
         server' = IF f # "ok" THEN Listen(IndexWarning(server))
                   ELSE IF textIndexExists THEN Listen(server)
                   ELSE [server EXCEPT !.pc = "createIndex"]
    /\ UNCHANGED <<connVars, movies, usedIds, req, voyageKey, histVars, indexes>>

\* createTextSearchIndex after createIndex; verifyRequirements and the
\* awaits of startServer return, and the app listens
createTextSearchIndex_createIndex ==
    /\ server.pc = "createIndex"
    /\ \/ /\ indexes' = indexes \cup {TextIndex("text_search_index")}
          /\ server' = Listen(server)
       \/ /\ UNCHANGED indexes
          /\ server' = Listen(IndexWarning(server))
    /\ UNCHANGED <<connVars, movies, usedIds, req, voyageKey, histVars>>

\* the collection as the process may find it: empty or not, without a text
\* index, with this app's, with another one
InitStart ==
    /\ uri \in {"unset", "set"}
    /\ connectP = 0
    /\ promises = <<>>
    /\ database = 0
    /\ client = 0
    /\ connectCalls = 0
    /\ callers = <<IdleCaller, IdleCaller>>
    /\ movies \in {{}, {NewDoc(ObjectId(IdOf(1)), [title |-> "X", year |-> 1994])}}
    /\ usedIds = {OidToString(d._id) : d \in movies}
    /\ req = [r \in {1} |-> IdleSlot]
    /\ voyageKey = Undefined
    /\ created = <<>>
    /\ modified = {}
    /\ gone = {}
    /\ server = NotStarted
    /\ indexes \in {{IdIndex}, {IdIndex, TextIndex("text_search_index")},
                    {IdIndex, TextIndex("plot_text")}}

NextStart ==
    \/ startServer
    \/ \E p \in DOMAIN promises : ConnectResolves(p) /\ UNCHANGED apiVars
    \/ \E p \in DOMAIN promises : ConnectRejects(p) /\ UNCHANGED apiVars
    \/ \E c \in DOMAIN callers : connectToDatabaseResume(c) /\ UNCHANGED apiVars
    \/ startServer_connectToDatabase
    \/ verifyRequirements_connectToDatabase
    \/ verifyMoviesCollection_estimatedDocumentCount
    \/ createTextSearchIndex_listIndexes
    \/ createTextSearchIndex_createIndex
    \/ \E r \in DOMAIN req, path \in GetPaths :
          server.listening /\ routerGet(r, path) /\ UNCHANGED envVars
    \/ \E r \in DOMAIN req : getAllMovies_find(r) /\ UNCHANGED envVars
    \/ \E r \in DOMAIN req : getMovieById_findOne(r) /\ UNCHANGED envVars
    \/ \E r \in DOMAIN req : getMoviesByYearWithStats_aggregate(r) /\ UNCHANGED envVars
    \/ \E r \in DOMAIN req : Finish(r) /\ UNCHANGED envVars

SpecStart == InitStart /\ [][NextStart]_vars

(***************************************************************************)
(* The collection accessor before initialization                           *)
(***************************************************************************)
\* connection establishment has completed successfully
Established == \E p \in DOMAIN promises : promises[p].state = "fulfilled"

\* the request failed on the accessor
NotConnectedFailure(s) ==
    /\ Answered(s) /\ s.resp[1].status = 500
    /\ s.thrown # <<>> /\ s.thrown[1].message = "Database not connected."

\* C24: getCollection fails with "Database not connected." in every state in
\* which connection establishment has not completed successfully (never
\* started, in flight, or failed) and returns a collection only after it
\* has; a request handled before initialization ends in a failure response
\* and performs no store operation.
C24_FailFast ==
    /\ getCollectionThrows <=> ~Established
    /\ ~Established =>
          \A r \in Active :
             /\ req[r].ops = <<>>
             /\ Answered(req[r]) => req[r].resp[1].status >= 400
             /\ ~Answered(req[r]) =>
                   req[r].h = "vectorSearchMovies" /\ req[r].pc = "embed"

\* a list request handled while client.connect() was in flight was answered
\* 500 "Database not connected." without a store operation
C24_Witness ==
    /\ \E p \in DOMAIN promises : promises[p].state = "pending"
    /\ \E r \in Active :
          /\ req[r].h = "getAllMovies"
          /\ NotConnectedFailure(req[r])
          /\ req[r].ops = <<>>

(***************************************************************************)
(* Writers and deleters in flight together                                 *)
(***************************************************************************)
\* the request was answered `status` by handler h
AnsweredBy(s, h, status) == s.h = h /\ Answered(s) /\ s.resp[1].status = status

\* the success answer carries the document with this id
CarriesDocument(s, id) ==
    /\ s.resp[1].body.data # Null
    /\ s.resp[1].body.data._id = id

\* C25: under every interleaving with delete requests on the same movie, a
\* createMovie answer 201 and an updateMovie answer 200 carry the affected
\* document: data is not null and its _id is the inserted or updated id.
C25_CarriesDocument ==
    \A r \in DOMAIN req :
       /\ AnsweredBy(req[r], "createMovie", 201) => CarriesDocument(req[r], req[r].oid)
       /\ AnsweredBy(req[r], "updateMovie", 200) => CarriesDocument(req[r], req[r].in.id)

\* updateOne matched and changed the movie, a deleteMovie on the same id was
\* answered 200, and the update was answered 200 with data null
C25_Divergence ==
    \E r, d \in DOMAIN req :
       /\ AnsweredBy(req[r], "updateMovie", 200)
       /\ req[r].in.id = IdOf(1) /\ req[r].n = 1
       /\ req[r].resp[1].body.data = Null
       /\ AnsweredBy(req[d], "deleteMovie", 200)
       /\ req[d].in.id = IdOf(1)

\* the delete requests (either route) that name this movie
Deleters(id) ==
    {r \in DOMAIN req : /\ req[r].h \in {"deleteMovie", "findAndDeleteMovie"}
                        /\ req[r].in.id = id}

\* ... those answered after their store operation returned
Served(id) == {r \in Deleters(id) : Answered(req[r]) /\ req[r].okOps = 1}
Winners(id) == {r \in Served(id) : req[r].resp[1].status = 200}
Losers(id) ==
    {r \in Served(id) : /\ req[r].resp[1].status = 404
                        /\ req[r].resp[1].body.error.code = "MOVIE_NOT_FOUND"}

\* C26: for any number of deleteMovie and findAndDeleteMovie requests in
\* flight together on the same existing id, exactly one is answered 200 and
\* every other one 404 MOVIE_NOT_FOUND, and the document is removed exactly
\* once: the movie is gone exactly when there is a 200, there is never a
\* second 200, and a 404 is given only once the movie is gone.
C26_OneWinner ==
    LET id == IdOf(1) IN
    /\ Served(id) = Winners(id) \cup Losers(id)
    /\ Cardinality(Winners(id)) <= 1
    /\ FindById(ObjectId(id)) = Null <=> Cardinality(Winners(id)) = 1
    /\ Losers(id) # {} => Winners(id) # {}
    /\ Deleters(id) # {} /\ Served(id) = Deleters(id) => Cardinality(Winners(id)) = 1

\* every request was a delete of the stored movie, through both routes; all
\* were served: one 200, the others 404
C26_Witness ==
    /\ Deleters(IdOf(1)) = DOMAIN req
    /\ Served(IdOf(1)) = DOMAIN req
    /\ \E r \in DOMAIN req : req[r].h = "deleteMovie"
    /\ \E r \in DOMAIN req : req[r].h = "findAndDeleteMovie"
    /\ Cardinality(Winners(IdOf(1))) = 1
    /\ Cardinality(Losers(IdOf(1))) = NRequests - 1

(***************************************************************************)
(* A failed first connection attempt                                       *)
(***************************************************************************)
\* the attempt connect$ holds has failed
AttemptFailed == connectP # 0 /\ promises[connectP].state = "rejected"

\* C27: once the first connection attempt has failed (MONGODB_URI undefined,
\* or client.connect() rejected), every connectToDatabase call rejects with
\* that same failure and none starts a new attempt; the process never becomes
\* connected and getCollection keeps throwing.
C27_FailureIsFinal ==
    AttemptFailed =>
       /\ connectP = 1 /\ Len(promises) = 1
       /\ promises[1].error = (IF uri = "unset" THEN UriError ELSE ConnectError)
       /\ connectCalls = (IF uri = "unset" THEN 0 ELSE 1)
       /\ database = 0 /\ getCollectionThrows
       /\ \A c \in DOMAIN callers :
             /\ callers[c].pc # "resolved"
             /\ callers[c].pc = "await" => callers[c].promise = 1
             /\ callers[c].pc = "rejected" => callers[c].error = promises[1].error

\* client.connect() rejected; the caller that started the attempt and a
\* caller that arrived after the failure were both rejected with its error
C27_Witness ==
    /\ AttemptFailed /\ uri = "set"
    /\ \E a, b \in DOMAIN callers :
          /\ callers[a].pc = "rejected" /\ callers[a].arrived = "first"
          /\ callers[b].pc = "rejected" /\ callers[b].arrived = "settled"
          /\ callers[a].error = ConnectError /\ callers[b].error = ConnectError

(***************************************************************************)
(* One response per invocation                                             *)
(***************************************************************************)
\* what a request has asked of the store and the embedding provider so far
Asked(s) == Len(s.ops) + s.provider

\* C28: every invocation of a handler wrapped by asyncHandler sends at most
\* one response, and exactly one once its awaited calls have settled: the
\* handler either sends one response and returns, or throws before sending
\* and errorHandler sends the only response; no invocation sends a response
\* and then forwards an error. A request has a response exactly when it is
\* done, and each step of a waiting request either ends it with its one
\* response or leaves it waiting on a further call.
C28_SingleResponse ==
    /\ [](\A r \in DOMAIN req :
            LET s == req[r] IN
            /\ Len(s.resp) <= 1
            /\ Len(s.thrown) <= 1
            /\ s.pc = "done" <=> Len(s.resp) = 1
            /\ s.thrown # <<>> => s.resp = <<errorHandler(s.thrown[1])>>)
    /\ [][\A r \in DOMAIN req :
            req[r].pc \notin {"idle", "done"} /\ req'[r] # req[r] =>
               \/ req'[r].pc = "done" /\ Len(req'[r].resp) = 1
               \/ req'[r].pc \notin {"idle", "done"} /\ Asked(req'[r]) > Asked(req[r])]_vars

\* a createMovie whose insertOne failed: errorHandler sent the only response
C28_Witness ==
    \E r \in DOMAIN req :
       /\ req[r].h = "createMovie" /\ req[r].pc = "done"
       /\ req[r].ops = <<"insertOne">> /\ req[r].okOps = 0
       /\ Len(req[r].thrown) = 1 /\ req[r].thrown[1].mongo
       /\ Len(req[r].resp) = 1 /\ req[r].resp[1].status >= 400

(***************************************************************************)
(* Startup                                                                 *)
(***************************************************************************)
\* a startup step has failed: the connection attempt, the second
\* connectToDatabase, or the document count
StartupFailed ==
    \/ server.pc = "exited"
    \/ server.pc = "connectToDatabase" /\ callers[1].pc = "rejected"
    \/ server.pc = "verifyRequirements" /\ callers[2].pc = "rejected"

\* C29: startServer starts listening only after connectToDatabase and then
\* verifyRequirements have both completed successfully, in that order; if
\* either fails the process exits with code 1 and never listens; a failure
\* to create the text search index inside verifyRequirements is swallowed
\* and does not prevent listening.
C29_StartupOrder ==
    /\ [](/\ server.listening =>
               /\ server.did = <<"connectToDatabase", "verifyRequirements">>
               /\ database # 0 /\ Established
               /\ server.exit = <<>>
          /\ server.pc = "exited" <=> server.exit = <<ExitFailure>>
          /\ StartupFailed => ~server.listening
          /\ Active # {} => server.listening
          /\ "Could not create text search index" \in server.warned =>
                server.listening /\ server.exit = <<>>)
    /\ [][/\ server.pc = "exited" => server' = server
          /\ StartupFailed /\ server' # server => server'.exit = <<ExitFailure>>
          /\ server.pc = "createIndex" /\ server' # server => server'.listening]_vars

\* createIndex failed, the warning was logged, and the app listens and has
\* answered a request
C29_Witness ==
    /\ server.listening
    /\ "Could not create text search index" \in server.warned
    /\ ~textIndexExists
    /\ \E r \in Active : Answered(req[r]) /\ req[r].resp[1].status = 200

(***************************************************************************)
(* The empty filter in the two batch handlers                              *)
(***************************************************************************)
\* the request was answered 400 with this code, before any store operation
Refused(s, code) ==
    /\ Answered(s) /\ s.resp[1].status = 400
    /\ s.resp[1].body.error.code = code
    /\ s.ops = <<>>

====
